---- MODULE Spec2Model ----
(***************************************************************************)
(* State-machine model of the EPP client protocol engine (EppClient):      *)
(* connection lifecycle, command/response correlation by clTRID, timers,   *)
(* length-prefixed framing of the receive path and close handling.         *)
(***************************************************************************)
EXTENDS Integers, Sequences, FiniteSets, TLC

(* ------------------------------ bounds -------------------------------- *)

\* Specification Spec (connection lifecycle): TLS sockets opened and
\* sendCommand calls registered over the life of the instance
MaxSockets == 2
MaxCalls == 1
\* Specification SpecCorr (correlation): the same two limits
CorrSockets == 1
CorrCalls == 2
\* bytes the receive buffer may hold when a chunk arrives
MaxBuf == 6
\* disconnect() calls waiting on one socket at the same time
MaxDisc == 1
\* receive-handler runs suspended on an XML parse at the same time
MaxRuns == 1

(* --------------------------- value domains ---------------------------- *)

\* "no value" for an optional string argument (undefined)
Undef == "undefined"

\* bytes with a meaning to the receive path
NUL == 0
SP == 32

\* default command timeout of a fresh configuration
DefaultTimeoutMs == 60000

\* no outcome yet: the promise of the call is unresolved
NoOutcome ==
  [kind |-> "none", err |-> "", tid |-> "", code |-> [t |-> "null", v |-> 0],
   success |-> FALSE]

\* an Error value that is not a Protocol Error
ErrorOutcome(e) ==
  [kind |-> "error", err |-> e, tid |-> "", code |-> [t |-> "null", v |-> 0],
   success |-> FALSE]

\* error messages of the program
ErrNotConnected == "The client is not connected. Call connect() first."
ErrClosed == "EPP connection closed."
ErrUnexpected == "Unexpected error."
ErrTimeout == "EPP command timed out."
ErrPayload == "An XML payload is required."
ErrNoCommand == "Unable to inject <clTRID>: no </command> closing tag found."
ErrAlready == "The client is already connected."
ErrHost == "The host option is required."
ErrPort == "The port option must be an integer between 1 and 65535."
ErrDefaultTimeout == "The defaultTimeout option must be a non-negative integer."
ErrParse == "Failed to parse EPP XML response."
ErrNoSocket == "Unable to access the underlying socket."
\* Error objects raised by the environment
SocketErr == "socket error"
WriteErr == "write error"
DestroyReason == "destroy reason"

VARIABLES
  _config,       \* EppClientConfig: [host, port, defaultTimeout]
  _socket,       \* 0 (null) or the id of the socket the instance holds
  _connected,    \* BOOLEAN
  _buffer,       \* receive buffer: sequence of bytes
  _pending,      \* Map clTRID -> settle, the settle named by its call index
  _transactionIdCounter,
  sockets,       \* the TLS sockets opened so far, in order of creation
  calls,         \* the sendCommand calls that reached registration:
                 \* [tid, timer (0: none or cleared, else its ms), settles,
                 \*  via (the code path that resolved it)]
  spinning,      \* the extraction loop of _handleData never returns
  runs,          \* suspended _handleData runs: the xml each awaits the parse of
  trace,         \* what the last step emitted, resolved and returned, in order
  nConnect,      \* 'connect' notifications emitted so far
  nClose,        \* 'close' notifications emitted so far
  incoming,      \* the reads ('data' chunks) of the registry's stream that are
                 \* still to be delivered, in order
  feed           \* [on, sent, cut, xmls]: when on, the payloads the registry
                 \* framed, the reads its stream was cut into, and the xml of
                 \* every 'received' notification so far, in order

vars == <<_config, _socket, _connected, _buffer, _pending, _transactionIdCounter,
          sockets, calls, spinning, runs, trace, nConnect, nClose, incoming,
          feed>>

(* ------------------------- Transport framing -------------------------- *)

\* header.writeUInt32BE(n, 0): four bytes, most significant first
UInt32BE(n) ==
  << (n \div 16777216) % 256, (n \div 65536) % 256, (n \div 256) % 256, n % 256 >>

\* buffer.readUInt32BE(0)
ReadUInt32BE(buf) ==
  buf[1] * 16777216 + buf[2] * 65536 + buf[3] * 256 + buf[4]

\* Buffer.subarray(from, to): bytes from..to-1 (0-based), empty when to <= from
Subarray(buf, from, to) ==
  LET hi == IF to > Len(buf) THEN Len(buf) ELSE to
  IN  IF hi <= from THEN << >> ELSE SubSeq(buf, from + 1, hi)

\* sendCommand: header (payload length + 4) followed by the payload
EncodeFrame(payload) == UInt32BE(Len(payload) + 4) \o payload

\* .replace(/\u0000/g, "")
RECURSIVE StripNul(_)
StripNul(s) ==
  IF s = << >> THEN << >>
  ELSE IF Head(s) = NUL THEN StripNul(Tail(s))
  ELSE << Head(s) >> \o StripNul(Tail(s))

\* String.prototype.trim on a sequence whose whitespace is the element sp
RECURSIVE TrimLeft(_, _)
TrimLeft(s, ws) ==
  IF s # << >> /\ Head(s) \in ws THEN TrimLeft(Tail(s), ws) ELSE s

RECURSIVE TrimRight(_, _)
TrimRight(s, ws) ==
  IF s # << >> /\ s[Len(s)] \in ws THEN TrimRight(SubSeq(s, 1, Len(s) - 1), ws) ELSE s

Trim(s, ws) == TrimRight(TrimLeft(s, ws), ws)

\* the payload text without the final trim()
PayloadXmlUntrimmed(payload) == StripNul(payload)

\* payload.toString("utf8").replace(/\u0000/g, "").trim()
PayloadXml(payload) == Trim(StripNul(payload), {SP})

\* the loop without its wait for the rest of a frame
RECURSIVE ExtractNextEager(_)
ExtractNextEager(buf) ==
  IF Len(buf) < 4
  THEN [buf |-> buf, xml |-> << >>, found |-> FALSE, spin |-> FALSE]
  ELSE LET messageLength == ReadUInt32BE(buf)
           payload == Subarray(buf, 4, messageLength)
           rest == Subarray(buf, messageLength, Len(buf))
           xml == PayloadXml(payload)
       IN  IF xml # << >>
           THEN [buf |-> rest, xml |-> xml, found |-> TRUE, spin |-> FALSE]
           ELSE IF messageLength = 0
           THEN [buf |-> buf, xml |-> << >>, found |-> FALSE, spin |-> TRUE]
           ELSE ExtractNextEager(rest)

\* a faulty loop that yields the xml of every complete frame, empty or not
\* (C31 rejects it)
ExtractNextYieldBlank(buf) ==
  IF Len(buf) < 4
  THEN [buf |-> buf, xml |-> << >>, found |-> FALSE, spin |-> FALSE]
  ELSE LET messageLength == ReadUInt32BE(buf)
           payload == Subarray(buf, 4, messageLength)
           rest == Subarray(buf, messageLength, Len(buf))
       IN  IF Len(buf) < messageLength
           THEN [buf |-> buf, xml |-> << >>, found |-> FALSE, spin |-> FALSE]
           ELSE [buf |-> rest, xml |-> PayloadXml(payload), found |-> TRUE,
                 spin |-> FALSE]

\* The while loop of _handleData up to its first suspension: drop every
\* leading frame whose xml is empty, stop at the first frame with a non-empty
\* xml (found), or when the buffer holds no complete frame.  A declared length
\* of 0 consumes nothing and yields an empty xml: the loop never ends (spin).
RECURSIVE ExtractNext(_)
ExtractNext(buf) ==
  IF Len(buf) < 4
  THEN [buf |-> buf, xml |-> << >>, found |-> FALSE, spin |-> FALSE]
  ELSE LET messageLength == ReadUInt32BE(buf)
           payload == Subarray(buf, 4, messageLength)
           rest == Subarray(buf, messageLength, Len(buf))
           xml == PayloadXml(payload)
       IN  IF Len(buf) < messageLength
           THEN [buf |-> buf, xml |-> << >>, found |-> FALSE, spin |-> FALSE]
           ELSE IF xml # << >>
           THEN [buf |-> rest, xml |-> xml, found |-> TRUE, spin |-> FALSE]
           ELSE IF messageLength = 0
           THEN [buf |-> buf, xml |-> << >>, found |-> FALSE, spin |-> TRUE]
           ELSE ExtractNext(rest)

(* --------------------------- Command encoder -------------------------- *)

\* An XML document is a sequence of tokens: tags, whitespace and text.
WhiteSpace == {" ", "    ", "\n  ", "\n"}

\* case-insensitive tag comparison (the /i flag of the two patterns)
Lower(tok) ==
  CASE tok = "<CLTRID>" -> "<clTRID>"
    [] tok = "</CLTRID>" -> "</clTRID>"
    [] tok = "</COMMAND>" -> "</command>"
    [] OTHER -> tok

Tags == {"<epp>", "</epp>", "<command>", "</command>", "<clTRID>", "</clTRID>",
         "<hello/>", "<check/>", "<info/>", "<update/>",
         "<CLTRID>", "</CLTRID>", "</COMMAND>"}

\* escapeXml, on the identifiers the model uses
EscapeXml(s) ==
  CASE s = "a&b" -> "a&amp;b"
    [] s = "a<b" -> "a&lt;b"
    [] OTHER -> s

\* String.prototype.replace(pattern, replacement): the replacement patterns
\* in the text of a replacement string, on the identifiers the model uses;
\* "$$" inserts "$" and "$&" inserts the matched substring
Replacement(text, matched) ==
  CASE text = "t$$2" -> << "t$2" >>
    [] text = "t$&" -> << "t", matched >>
    [] OTHER -> << text >>

RECURSIVE JoinTokens(_)
JoinTokens(s) == IF s = << >> THEN "" ELSE Head(s) \o JoinTokens(Tail(s))

\* position of the first tag at or after i, 0 when there is none
RECURSIVE NextTag(_, _)
NextTag(s, i) ==
  IF i > Len(s) THEN 0 ELSE IF s[i] \in Tags THEN i ELSE NextTag(s, i + 1)

\* trimmed.match(/<clTRID>([^<]*)<\/clTRID>/i): the leftmost opening tag that
\* is followed by text only and then the closing tag; 0 when nothing matches
ClTridMatches(s) ==
  { i \in 1..Len(s) : /\ Lower(s[i]) = "<clTRID>"
                      /\ NextTag(s, i + 1) # 0
                      /\ Lower(s[NextTag(s, i + 1)]) = "</clTRID>" }

MinOf(S) == CHOOSE x \in S : \A y \in S : x <= y

\* match[1]: the text between the two tags of the match starting at i
ClTridText(s, i) == SubSeq(s, i + 1, NextTag(s, i + 1) - 1)

\* /<\/command>/i: positions of closing command tags
CommandCloses(s) == { i \in 1..Len(s) : Lower(s[i]) = "</command>" }

\* a generator that does not use the counter
NextTransactionIdStuck(counter) == "tx-1"

\* _nextTransactionId: `tx-${Date.now()}-${counter}` for the incremented
\* counter; the clock reading is left out of the identifier
NextTransactionId(counter) == "tx-" \o ToString(counter + 1)

\* a _prepareCommand that prefers the provided id to the text of <clTRID>
PrepareCommandProvidedFirst(xml, providedTransactionId, counter) ==
  LET trimmed == Trim(xml, WhiteSpace)
      Fail(e) == [ok |-> FALSE, err |-> e, xml |-> << >>, transactionId |-> "",
                  counter |-> counter]
  IN
  IF trimmed = << >> THEN Fail(ErrPayload)
  ELSE IF ClTridMatches(trimmed) # {}
  THEN LET i == MinOf(ClTridMatches(trimmed))
           existing == JoinTokens(Trim(ClTridText(trimmed, i), WhiteSpace))
           provided == IF providedTransactionId \in {Undef, ""}
                       THEN "" ELSE providedTransactionId
       IN  IF provided # ""
           THEN [ok |-> TRUE, err |-> "", xml |-> trimmed,
                 transactionId |-> provided, counter |-> counter]
           ELSE IF existing # ""
           THEN [ok |-> TRUE, err |-> "", xml |-> trimmed,
                 transactionId |-> existing, counter |-> counter]
           ELSE [ok |-> TRUE, err |-> "", xml |-> trimmed,
                 transactionId |-> NextTransactionId(counter),
                 counter |-> counter + 1]
  ELSE LET generate == providedTransactionId = Undef
           transactionId == IF generate THEN NextTransactionId(counter)
                            ELSE providedTransactionId
           counter2 == IF generate THEN counter + 1 ELSE counter
       IN  IF CommandCloses(trimmed) = {}
           THEN [ok |-> FALSE, err |-> ErrNoCommand, xml |-> << >>,
                 transactionId |-> "", counter |-> counter2]
           ELSE LET k == MinOf(CommandCloses(trimmed))
                    updated == SubSeq(trimmed, 1, k - 1)
                               \o << "    ", "<clTRID>" >>
                               \o Replacement(EscapeXml(transactionId), trimmed[k])
                               \o << "</clTRID>", "\n  ", "</command>" >>
                               \o SubSeq(trimmed, k + 1, Len(trimmed))
                IN  [ok |-> TRUE, err |-> "", xml |-> updated,
                     transactionId |-> transactionId, counter |-> counter2]

\* a _prepareCommand that passes a document without </command> through
PrepareCommandPassThrough(xml, providedTransactionId, counter) ==
  LET trimmed == Trim(xml, WhiteSpace)
      Fail(e) == [ok |-> FALSE, err |-> e, xml |-> << >>, transactionId |-> "",
                  counter |-> counter]
  IN
  IF trimmed = << >> THEN Fail(ErrPayload)
  ELSE IF ClTridMatches(trimmed) # {}
  THEN LET i == MinOf(ClTridMatches(trimmed))
           existing == JoinTokens(Trim(ClTridText(trimmed, i), WhiteSpace))
           provided == IF providedTransactionId \in {Undef, ""}
                       THEN "" ELSE providedTransactionId
       IN  IF existing # ""
           THEN [ok |-> TRUE, err |-> "", xml |-> trimmed,
                 transactionId |-> existing, counter |-> counter]
           ELSE IF provided # ""
           THEN [ok |-> TRUE, err |-> "", xml |-> trimmed,
                 transactionId |-> provided, counter |-> counter]
           ELSE [ok |-> TRUE, err |-> "", xml |-> trimmed,
                 transactionId |-> NextTransactionId(counter),
                 counter |-> counter + 1]
  ELSE LET generate == providedTransactionId = Undef
           transactionId == IF generate THEN NextTransactionId(counter)
                            ELSE providedTransactionId
           counter2 == IF generate THEN counter + 1 ELSE counter
       IN  IF CommandCloses(trimmed) = {}
           THEN [ok |-> TRUE, err |-> "", xml |-> trimmed,
                 transactionId |-> transactionId, counter |-> counter2]
           ELSE LET k == MinOf(CommandCloses(trimmed))
                    updated == SubSeq(trimmed, 1, k - 1)
                               \o << "    ", "<clTRID>" >>
                               \o Replacement(EscapeXml(transactionId), trimmed[k])
                               \o << "</clTRID>", "\n  ", "</command>" >>
                               \o SubSeq(trimmed, k + 1, Len(trimmed))
                IN  [ok |-> TRUE, err |-> "", xml |-> updated,
                     transactionId |-> transactionId, counter |-> counter2]

\* _prepareCommand(xml, providedTransactionId) with the counter before the
\* call: [ok, err, xml, transactionId, counter]
PrepareCommand(xml, providedTransactionId, counter) ==
  LET trimmed == Trim(xml, WhiteSpace)
      Fail(e) == [ok |-> FALSE, err |-> e, xml |-> << >>, transactionId |-> "",
                  counter |-> counter]
  IN
  IF trimmed = << >> THEN Fail(ErrPayload)
  ELSE IF ClTridMatches(trimmed) # {}
  THEN LET i == MinOf(ClTridMatches(trimmed))
           existing == JoinTokens(Trim(ClTridText(trimmed, i), WhiteSpace))
           provided == IF providedTransactionId \in {Undef, ""}
                       THEN "" ELSE providedTransactionId
       IN  IF existing # ""
           THEN [ok |-> TRUE, err |-> "", xml |-> trimmed,
                 transactionId |-> existing, counter |-> counter]
           ELSE IF provided # ""
           THEN [ok |-> TRUE, err |-> "", xml |-> trimmed,
                 transactionId |-> provided, counter |-> counter]
           ELSE [ok |-> TRUE, err |-> "", xml |-> trimmed,
                 transactionId |-> NextTransactionId(counter),
                 counter |-> counter + 1]
  ELSE LET generate == providedTransactionId = Undef
           transactionId == IF generate THEN NextTransactionId(counter)
                            ELSE providedTransactionId
           counter2 == IF generate THEN counter + 1 ELSE counter
       IN  IF CommandCloses(trimmed) = {}
           THEN [ok |-> FALSE, err |-> ErrNoCommand, xml |-> << >>,
                 transactionId |-> "", counter |-> counter2]
           ELSE LET k == MinOf(CommandCloses(trimmed))
                    updated == SubSeq(trimmed, 1, k - 1)
                               \o << "    ", "<clTRID>" >>
                               \o Replacement(EscapeXml(transactionId), trimmed[k])
                               \o << "</clTRID>", "\n  ", "</command>" >>
                               \o SubSeq(trimmed, k + 1, Len(trimmed))
                IN  [ok |-> TRUE, err |-> "", xml |-> updated,
                     transactionId |-> transactionId, counter |-> counter2]

(* -------------------------- Response normalizer ----------------------- *)

NullCode == [t |-> "null", v |-> 0]
NaNCode == [t |-> "NaN", v |-> 0]
NumCode(n) == [t |-> "num", v |-> n]

\* Number(text) of a code attribute, on the attribute values the model uses
NumberOf(text) ==
  CASE text = "1000" -> NumCode(1000)
    [] text = "1300" -> NumCode(1300)
    [] text = "1999" -> NumCode(1999)
    [] text = "2000" -> NumCode(2000)
    [] text = "2303" -> NumCode(2303)
    [] text = "2306" -> NumCode(2306)
    [] OTHER -> NaNCode

\* A parsed document (the tree xml2js returns), reduced to what the
\* normalizer reads: epp.greeting, epp.response.result (a list; each result
\* its code attribute, Undef when absent, and its message text) and
\* epp.response.trID.clTRID (Undef when absent).
Result(code, msg) == [code |-> code, msg |-> msg]
GreetingDoc == [greeting |-> TRUE, results |-> << >>, clTRID |-> Undef]
ResponseDoc(clTRID, results) ==
  [greeting |-> FALSE, results |-> results, clTRID |-> clTRID]

RECURSIVE JoinWith(_, _)
JoinWith(s, sep) ==
  IF s = << >> THEN ""
  ELSE IF Len(s) = 1 THEN s[1]
  ELSE s[1] \o sep \o JoinWith(Tail(s), sep)

\* a faulty normalizer for which only the code 1000 is a success
NormalizeOnly1000(parsed) ==
  [type |-> IF parsed.greeting THEN "greeting" ELSE "response",
   success |-> parsed.results # << >> /\ parsed.results[1].code = "1000",
   resultCode |-> IF parsed.results # << >> /\ ~parsed.greeting
                  THEN NumberOf(parsed.results[1].code) ELSE NullCode,
   resultMessages |-> << >>, resultMessage |-> "",
   transactionId |-> IF parsed.greeting \/ parsed.clTRID \in {Undef, ""}
                     THEN "" ELSE parsed.clTRID]

\* a faulty normalizer that does not look for epp.greeting (C8 rejects it)
NormalizeWithoutGreeting(parsed) ==
  [type |-> "response",
   success |-> IF parsed.results # << >> /\ parsed.results[1].code \notin {Undef, ""}
               THEN NumberOf(parsed.results[1].code).t = "num"
                    /\ NumberOf(parsed.results[1].code).v < 2000
               ELSE TRUE,
   resultCode |-> IF parsed.results # << >> /\ parsed.results[1].code \notin {Undef, ""}
                  THEN NumberOf(parsed.results[1].code) ELSE NullCode,
   resultMessages |-> << >>, resultMessage |-> "",
   transactionId |-> IF parsed.clTRID \in {Undef, ""} THEN "" ELSE parsed.clTRID]

\* normalizeEppResponse(parsed)
NormalizeEppResponse(parsed) ==
  IF parsed.greeting
  THEN [type |-> "greeting", success |-> TRUE, resultCode |-> NullCode,
        resultMessages |-> << >>, resultMessage |-> "", transactionId |-> ""]
  ELSE LET results == parsed.results
           hasCode == results # << >> /\ results[1].code \notin {Undef, ""}
           resultCode == IF hasCode THEN NumberOf(results[1].code) ELSE NullCode
           resultMessages == SelectSeq([i \in 1..Len(results) |-> results[i].msg],
                                       LAMBDA m : m # "")
           success == CASE resultCode.t = "num" -> resultCode.v < 2000
                        [] resultCode.t = "NaN" -> FALSE
                        [] OTHER -> TRUE
       IN  [type |-> "response", success |-> success, resultCode |-> resultCode,
            resultMessages |-> resultMessages,
            resultMessage |-> JoinWith(resultMessages, " "),
            transactionId |-> IF parsed.clTRID \in {Undef, ""} THEN ""
                              ELSE parsed.clTRID]

\* createCommandError(normalized): the Protocol Error, with the result code
\* and the normalized result it wraps
CreateCommandError(normalized) ==
  [kind |-> "error", err |-> "EppCommandError", tid |-> normalized.transactionId,
   code |-> normalized.resultCode, success |-> normalized.success]

\* the outcome a successful command is resolved with: the normalized result
ResultOutcome(normalized) ==
  [kind |-> "result", err |-> "", tid |-> normalized.transactionId,
   code |-> normalized.resultCode, success |-> normalized.success]

\* Inbound documents the registry sends in the model.  The xml of document
\* k is the single byte k; parseStringPromise maps it to the tree Docs[k] and
\* rejects every other text.
Docs ==
  << GreetingDoc,
     ResponseDoc("t1", << Result("1000", "ok") >>),
     ResponseDoc("t1", << Result("2303", "no such object") >>),
     ResponseDoc("t2", << Result("1000", "ok") >>),
     ResponseDoc(Undef, << Result("2303", "no such object") >>),
     ResponseDoc("tx-1", << Result("1000", "ok") >>),
     ResponseDoc(Undef, << Result("1000", "ok") >>),
     [greeting |-> TRUE, results |-> << Result("2303", "no such object") >>,
      clTRID |-> "t1"],
     ResponseDoc("t1", << Result("1999", "ok") >>),
     ResponseDoc("t1", << Result("2000", "unknown command") >>),
     ResponseDoc("t1", << Result(Undef, "no code") >>),
     ResponseDoc("t1", << >>),
     ResponseDoc("t1", << Result("abc", "not a number") >>),
     ResponseDoc("t1", << Result("1000", "ok"), Result("2303", "no such object") >>),
     ResponseDoc("t1", << Result("", "empty code") >>) >>

ParseXml(xml) ==
  IF Len(xml) = 1 /\ xml[1] \in 1..Len(Docs)
  THEN [ok |-> TRUE, parsed |-> Docs[xml[1]]]
  ELSE [ok |-> FALSE, parsed |-> GreetingDoc]

(* ------------------------ Transaction correlator ---------------------- *)

\* a notification (EventEmitter.emit), or the value a connect(), disconnect()
\* or sendCommand() call is resolved with without registering a waiter
Ev(name, arg) ==
  [ev |-> name, arg |-> arg, call |-> 0, out |-> NoOutcome, data |-> << >>]

\* socket.write(message) by the sendCommand call registered under tid
Written(tid, message) ==
  [ev |-> "write", arg |-> tid, call |-> 0, out |-> NoOutcome, data |-> message]

\* the settle closure of call i was invoked with outcome `out`
Settled(i, out) ==
  [ev |-> "settle", arg |-> "", call |-> i, out |-> out, data |-> << >>]

\* Map operations on the pending table
EmptyMap == [k \in {} |-> 0]
MapSet(m, k, v) == [x \in (DOMAIN m) \cup {k} |-> IF x = k THEN v ELSE m[x]]
MapDelete(m, k) == [x \in (DOMAIN m) \ {k} |-> m[x]]

\* a faulty validate() that looks at the host only (C12 rejects it)
ValidateHostOnly(config) ==
  IF config.host = "" THEN ErrHost ELSE ""

\* EppClientConfig.validate(): "" when the configuration is valid.  A
\* configuration names in nonInteger the numeric options whose value is not
\* an integer (the field then holds the integer part).
Validate(config) ==
  IF config.host = "" THEN ErrHost
  ELSE IF "port" \in config.nonInteger \/ config.port <= 0 \/ config.port > 65535
  THEN ErrPort
  ELSE IF "defaultTimeout" \in config.nonInteger \/ config.defaultTimeout < 0
  THEN ErrDefaultTimeout
  ELSE ""

\* A socket returned by tlsConnect.  phase "handshaking": connect()'s two
\* once-listeners are on it; attached: the client's data, close and error
\* listeners are on it; disc: disconnect() calls waiting on it; errDue: a
\* destroy(error) has still to emit its 'error'; hadError: the argument its
\* 'close' event will carry.
NewSocket ==
  [phase |-> "handshaking", attached |-> FALSE, disc |-> 0,
   errDue |-> FALSE, hadError |-> FALSE]

\* a socket that has emitted 'close' emits nothing more
ClosedSocket(sock) ==
  [phase |-> "closed", attached |-> sock.attached, disc |-> 0,
   errDue |-> FALSE, hadError |-> FALSE]

\* socket.destroy(error): no effect on a destroyed socket; otherwise the
\* socket emits 'error' (when an error is given) and then 'close'
SocketDestroy(sock, withError) ==
  IF sock.phase \in {"destroyed", "closed"} THEN sock
  ELSE [sock EXCEPT !.phase = "destroyed", !.errDue = withError,
                    !.hadError = withError]

\* the client state the handlers below work on
Client ==
  [socket |-> _socket, connected |-> _connected, pending |-> _pending,
   calls |-> calls, socks |-> sockets, trace |-> << >>, nClose |-> nClose]

\* the variables take the values of client state c
Becomes(c) ==
  /\ _socket' = c.socket
  /\ _connected' = c.connected
  /\ _pending' = c.pending
  /\ calls' = c.calls
  /\ sockets' = c.socks
  /\ trace' = c.trace
  /\ nClose' = c.nClose

\* the settle closure of call i, invoked from code path `via`:
\* clearTimeout(timer) when there is a timer, then resolve(outcome); the
\* promise keeps the first resolution
Settle(c, i, outcome, via) ==
  [c EXCEPT !.calls[i].timer = 0,
            !.calls[i].settles = @ + 1,
            !.calls[i].via = IF @ = "" THEN via ELSE @,
            !.trace = Append(@, Settled(i, outcome))]

\* for (const settle of this._pending.values()) settle(outcome), over the
\* keys still to visit (every waiter gets the same outcome; the order of the
\* visits is not kept)
RECURSIVE SettleEach(_, _, _)
SettleEach(c, keys, outcome) ==
  IF keys = {} THEN c
  ELSE LET k == CHOOSE x \in keys : TRUE
       IN  SettleEach(Settle(c, c.pending[k], outcome, "flush"), keys \ {k}, outcome)

\* a faulty _resolveAll that settles the waiters and leaves the table as it
\* is (C5 rejects it)
ResolveAllKeepingTable(c, outcome) ==
  SettleEach(c, DOMAIN c.pending, outcome)

\* _resolveAll(outcome)
ResolveAll(c, outcome) ==
  [SettleEach(c, DOMAIN c.pending, outcome) EXCEPT !.pending = EmptyMap]

\* a faulty reason that is always the generic error (C17 rejects it)
CloseReasonGeneric(error) == ErrClosed

\* the reason _handleClose computes from its argument: undefined and false
\* give the generic error, true (hadError of the socket's close event) gives
\* normalizeError(true), an Error is kept
CloseReason(error) ==
  CASE error \in {Undef, "false"} -> ErrClosed
    [] error = "true" -> ErrUnexpected
    [] OTHER -> error

\* a faulty _handleClose that leaves _connected as it is (C14 rejects it)
HandleCloseStaysConnected(c, error) ==
  LET c1 == IF c.socket # 0
            THEN [c EXCEPT !.socks[c.socket].attached = FALSE, !.socket = 0]
            ELSE c
      reason == CloseReason(error)
      c3 == IF DOMAIN c1.pending # {}
            THEN ResolveAll(c1, ErrorOutcome(reason)) ELSE c1
  IN  IF c.connected
      THEN [c3 EXCEPT !.trace = Append(@, Ev("close", reason)),
                      !.nClose = @ + 1]
      ELSE c3

\* _handleClose(error)
HandleClose(c, error) ==
  LET c1 == IF c.socket # 0
            THEN [c EXCEPT !.socks[c.socket].attached = FALSE, !.socket = 0]
            ELSE c
      wasConnected == c.connected
      c2 == [c1 EXCEPT !.connected = FALSE]
      reason == CloseReason(error)
      c3 == IF DOMAIN c2.pending # {}
            THEN ResolveAll(c2, ErrorOutcome(reason)) ELSE c2
  IN  IF wasConnected
      THEN [c3 EXCEPT !.trace = Append(@, Ev("close", reason)),
                      !.nClose = @ + 1]
      ELSE c3

\* a faulty _handleSocketError that resolves the waiters with the generic
\* closure error (C29 rejects it)
HandleSocketErrorGeneric(c, error) ==
  LET c1 == [c EXCEPT !.trace = Append(@, Ev("error", error))]
      c2 == ResolveAll(c1, ErrorOutcome(ErrClosed))
  IN  IF c2.socket # 0
      THEN [c2 EXCEPT !.socks[c2.socket] = SocketDestroy(@, TRUE)]
      ELSE c2

\* _handleSocketError(error)
HandleSocketError(c, error) ==
  LET c1 == [c EXCEPT !.trace = Append(@, Ev("error", error))]
      c2 == ResolveAll(c1, ErrorOutcome(error))
  IN  IF c2.socket # 0
      THEN [c2 EXCEPT !.socks[c2.socket] = SocketDestroy(@, TRUE)]
      ELSE c2

\* a faulty _ensureConnected that lets every call pass (C9 rejects it)
EnsureNothing(socket, connected) == TRUE

\* _ensureConnected(): TRUE when the check passes
EnsureConnected(socket, connected) == socket # 0 /\ connected

(* ------------------------------- inputs ------------------------------- *)

\* new EppClientConfig({host, port, defaultTimeout}); port and defaultTimeout
\* take the constructor's defaults when not given
Config(host, port, defaultTimeout, nonInteger) ==
  [host |-> host, port |-> port, defaultTimeout |-> defaultTimeout,
   nonInteger |-> nonInteger]

\* configurations an instance is constructed with
Configs ==
  { Config("epp.example", 700, DefaultTimeoutMs, {}),
    Config("", 700, DefaultTimeoutMs, {}) }

\* command documents handed to sendCommand
XmlWithId == << "<command>", "<check/>", "<clTRID>", "t1", "</clTRID>", "</command>" >>
XmlNoId == << "<command>", "<check/>", "</command>" >>
XmlHello == << "<hello/>" >>

\* the timeout option of sendCommand: not given, or given in milliseconds
NoTimeout == [given |-> FALSE, ms |-> 0]
TimeoutOf(ms) == [given |-> TRUE, ms |-> ms]

\* the frame of inbound document k
DocFrame(k) == EncodeFrame(<< k >>)

\* the argument of destroy(error)
DestroyArgs == {Undef, DestroyReason}

\* What the callers and the registry do in a specification: the limits on
\* sockets and registered calls, the arguments of sendCommand and the chunks
\* the socket delivers.
LifeEnv ==
  [maxSockets |-> MaxSockets, maxCalls |-> MaxCalls,
   xmls |-> {XmlWithId}, ids |-> {Undef},
   timeouts |-> {NoTimeout, TimeoutOf(0)},
   chunks |-> {DocFrame(1), DocFrame(2)}]

CorrEnv ==
  [maxSockets |-> CorrSockets, maxCalls |-> CorrCalls,
   xmls |-> {XmlWithId, XmlNoId}, ids |-> {"t2"},
   timeouts |-> {NoTimeout, TimeoutOf(0)},
   chunks |-> {DocFrame(k) : k \in {1, 2, 3, 4, 5, 8}}]

(* ------------------------------- actions ------------------------------ *)

\* no registry stream is followed: 'data' chunks come from the environment
FeedOff == [on |-> FALSE, sent |-> << >>, cut |-> << >>, xmls |-> << >>]

InitWith(configs) ==
  /\ _config \in configs
  /\ _socket = 0
  /\ _connected = FALSE
  /\ _buffer = << >>
  /\ _pending = EmptyMap
  /\ _transactionIdCounter = 0
  /\ sockets = << >>
  /\ calls = << >>
  /\ spinning = FALSE
  /\ runs = << >>
  /\ trace = << >>
  /\ nConnect = 0
  /\ nClose = 0
  /\ incoming = << >>
  /\ feed = FeedOff

Init == InitWith(Configs)

\* connect(), up to the point where it waits for the handshake
Connect(maxSockets) ==
  /\ ~spinning
  /\ UNCHANGED <<_config, incoming, feed, _socket, _connected, _buffer, _pending,
                 _transactionIdCounter, calls, spinning, runs,
                 nConnect, nClose>>
  /\ IF Validate(_config) # ""
     THEN /\ trace' = << Ev("connect.resolve", Validate(_config)) >>
          /\ UNCHANGED sockets
     ELSE IF _socket # 0
     THEN /\ trace' = << Ev("connect.resolve", ErrAlready) >>
          /\ UNCHANGED sockets
     ELSE /\ Len(sockets) < maxSockets
          /\ sockets' = Append(sockets, NewSocket)
          /\ trace' = << >>

\* 'secureConnect' on socket s: handleConnect of connect()
SecureConnect(s) ==
  /\ ~spinning
  /\ sockets[s].phase = "handshaking"
  /\ sockets' = [sockets EXCEPT ![s] = [@ EXCEPT !.phase = "open", !.attached = TRUE]]
  /\ _socket' = s
  /\ _connected' = TRUE
  /\ _buffer' = << >>
  /\ trace' = << Ev("connect", ""), Ev("connect.resolve", "null") >>
  /\ nConnect' = nConnect + 1
  /\ UNCHANGED <<_config, incoming, feed, _pending, _transactionIdCounter, calls,
                 spinning, runs, nClose>>

\* the disconnect() promises waiting on socket s are resolved with `value`
\* (their once-listeners leave the socket)
ResolveDisconnects(c, s, value) ==
  [c EXCEPT !.socks[s].disc = 0,
            !.trace = @ \o [i \in 1..c.socks[s].disc |->
                              Ev("disconnect.resolve", value)]]

\* 'error' on socket s.  Either the transport failed (the socket may or may
\* not have destroyed itself before emitting), or a destroy(error) emits the
\* error it was given.  Listeners run in the order they were added.
SocketError(s, destroyedAlready) ==
  /\ ~spinning
  /\ \/ sockets[s].phase \in {"handshaking", "open", "ending"}
     \/ sockets[s].phase = "destroyed" /\ sockets[s].errDue /\ destroyedAlready
  /\ LET handshaking == sockets[s].phase = "handshaking"
         sock0 == IF destroyedAlready
                  THEN [sockets[s] EXCEPT !.phase = "destroyed", !.errDue = FALSE,
                                          !.hadError = TRUE]
                  ELSE sockets[s]
         c0 == [Client EXCEPT !.socks[s] = sock0]
         \* handleError of connect(): cleanup, socket.destroy(), resolve
         c1 == IF handshaking
               THEN [c0 EXCEPT !.socks[s] = SocketDestroy(@, FALSE),
                               !.trace = Append(@, Ev("connect.resolve", SocketErr))]
               ELSE c0
         c2 == IF c1.socks[s].attached THEN HandleSocketError(c1, SocketErr) ELSE c1
         c3 == ResolveDisconnects(c2, s, SocketErr)
     IN  Becomes(c3)
  /\ UNCHANGED <<_config, incoming, feed, _buffer, _transactionIdCounter, spinning, runs,
                 nConnect>>

\* 'close' on socket s, with hadError as its argument
SocketClose(s) ==
  /\ ~spinning
  /\ \/ sockets[s].phase \in {"open", "ending"}
     \/ sockets[s].phase = "destroyed" /\ ~sockets[s].errDue
  /\ LET hadError == IF sockets[s].hadError THEN "true" ELSE "false"
         c1 == IF sockets[s].attached THEN HandleClose(Client, hadError) ELSE Client
         c2 == ResolveDisconnects(c1, s, "null")
     IN  Becomes([c2 EXCEPT !.socks[s] = ClosedSocket(@)])
  /\ UNCHANGED <<_config, incoming, feed, _buffer, _transactionIdCounter, spinning, runs,
                 nConnect>>

\* a faulty disconnect() that announces a close when there is no socket (C15
\* rejects it)
DisconnectAnnouncing ==
  /\ ~spinning
  /\ IF _socket = 0
     THEN /\ trace' = << Ev("close", ErrClosed), Ev("disconnect.resolve", "null") >>
          /\ UNCHANGED sockets
     ELSE /\ sockets[_socket].disc < MaxDisc
          /\ sockets' = [sockets EXCEPT ![_socket] =
                           [@ EXCEPT !.disc = @ + 1,
                                     !.phase = IF @ = "open" THEN "ending" ELSE @]]
          /\ trace' = << >>
  /\ UNCHANGED <<_config, incoming, feed, _socket, _connected, _buffer, _pending,
                 _transactionIdCounter, calls, spinning, runs,
                 nConnect, nClose>>

\* disconnect()
Disconnect ==
  /\ ~spinning
  /\ IF _socket = 0
     THEN /\ trace' = << Ev("disconnect.resolve", "null") >>
          /\ UNCHANGED sockets
     ELSE /\ sockets[_socket].disc < MaxDisc
          /\ sockets' = [sockets EXCEPT ![_socket] =
                           [@ EXCEPT !.disc = @ + 1,
                                     !.phase = IF @ = "open" THEN "ending" ELSE @]]
          /\ trace' = << >>
  /\ UNCHANGED <<_config, incoming, feed, _socket, _connected, _buffer, _pending,
                 _transactionIdCounter, calls, spinning, runs,
                 nConnect, nClose>>

\* destroy(error)
Destroy(error) ==
  /\ ~spinning
  /\ LET c0 == IF _socket # 0
               THEN [Client EXCEPT !.socks[_socket] = SocketDestroy(@, error # Undef)]
               ELSE Client
     IN  Becomes(HandleClose(c0, error))
  /\ UNCHANGED <<_config, incoming, feed, _buffer, _transactionIdCounter, spinning, runs,
                 nConnect>>

\* the record kept for a sendCommand call that registers a waiter
Call(tid, timer) == [tid |-> tid, timer |-> timer, settles |-> 0, via |-> ""]

\* a faulty choice of the timeout that ignores the per-call value (C11
\* rejects it)
EffectiveTimeoutDefaultOnly(timeout, config) == config.defaultTimeout

\* timeout ?? this._config.defaultTimeout
EffectiveTimeout(timeout, config) ==
  IF timeout.given THEN timeout.ms ELSE config.defaultTimeout

\* the timer sendCommand creates: setTimeout(..., timeoutMs) when
\* timeoutMs > 0, else null
NewTimer(timeoutMs) == IF timeoutMs > 0 THEN timeoutMs ELSE 0

\* the catch block of sendCommand for call i, registered under tid
WriteFailed(c, i, tid) ==
  Settle([c EXCEPT !.calls[i].timer = 0, !.pending = MapDelete(@, tid)],
         i, ErrorOutcome(WriteErr), "write")

\* sendCommand(xml, {transactionId, timeout}) entered with the id counter at
\* `counter`; writeThrows: socket.write throws
SendCommandWith(counter, xml, transactionId, timeout, writeThrows, maxCalls) ==
  /\ ~spinning
  /\ LET i == Len(calls) + 1
         prepared == PrepareCommand(xml, transactionId, counter)
         timeoutMs == EffectiveTimeout(timeout, _config)
         message == EncodeFrame(prepared.xml)
         registered == [Client EXCEPT
                          !.calls = Append(@, Call(prepared.transactionId,
                                                   NewTimer(timeoutMs))),
                          !.pending = MapSet(@, prepared.transactionId, i)]
     IN
     IF ~EnsureConnected(_socket, _connected)
     THEN /\ Becomes([Client EXCEPT
                        !.trace = << Ev("sendCommand.return", ErrNotConnected) >>])
          /\ _transactionIdCounter' = counter
     ELSE IF ~prepared.ok
     THEN /\ prepared.counter <= maxCalls
          /\ Becomes([Client EXCEPT
                        !.trace = << Ev("sendCommand.return", prepared.err) >>])
          /\ _transactionIdCounter' = prepared.counter
     ELSE IF _socket = 0
     THEN /\ Becomes([Client EXCEPT
                        !.trace = << Ev("sendCommand.return", ErrNoSocket) >>])
          /\ _transactionIdCounter' = prepared.counter
     ELSE /\ Len(calls) < maxCalls
          /\ _transactionIdCounter' = prepared.counter
          /\ IF writeThrows
             THEN Becomes(WriteFailed(registered, i, prepared.transactionId))
             ELSE Becomes([registered EXCEPT
                             !.trace = << Written(prepared.transactionId, message),
                                          Ev("sent", prepared.transactionId) >>])
  /\ UNCHANGED <<_config, incoming, feed, _buffer, spinning, runs, nConnect>>

\* sendCommand(xml, {transactionId, timeout}) called by the application
SendCommand(xml, transactionId, timeout, writeThrows, maxCalls) ==
  SendCommandWith(_transactionIdCounter, xml, transactionId, timeout,
                  writeThrows, maxCalls)

\* buildHelloCommand(): the XML declaration and an <epp> envelope around
\* <hello/>
BuildHelloCommand ==
  << "<?xml?>", "\n", "<epp>", "\n  ", "<hello/>", "\n", "</epp>" >>

\* hello({transactionId, timeout}): the id is generated before sendCommand
\* is entered, when none is given
Hello(transactionId, timeout, writeThrows, maxCalls) ==
  LET generate == transactionId = Undef
      clTRID == IF generate THEN NextTransactionId(_transactionIdCounter)
                ELSE transactionId
      counter == IF generate THEN _transactionIdCounter + 1
                 ELSE _transactionIdCounter
  IN  /\ counter <= maxCalls
      /\ SendCommandWith(counter, BuildHelloCommand, clTRID, timeout,
                         writeThrows, maxCalls)

\* a faulty timer callback that settles the call and leaves its id in the
\* pending table (C4 rejects it)
TimerCallbackKeepingEntry(c, i) ==
  Settle(c, i, ErrorOutcome(ErrTimeout), "timer")

\* the callback sendCommand gives to setTimeout, for call i
TimerCallback(c, i) ==
  Settle([c EXCEPT !.pending = MapDelete(@, c.calls[i].tid)], i,
         ErrorOutcome(ErrTimeout), "timer")

\* the timer of call i fires
TimerFire(i) ==
  /\ ~spinning
  /\ calls[i].timer > 0
  /\ Becomes(TimerCallback(Client, i))
  /\ UNCHANGED <<_config, incoming, feed, _buffer, _transactionIdCounter, spinning, runs,
                 nConnect>>

\* a faulty matched branch that settles the waiter and leaves its entry in
\* the pending table (C2 rejects it)
ResolveMatchedKeepingEntry(c, normalized) ==
  Settle(c, c.pending[normalized.transactionId],
         IF normalized.success THEN ResultOutcome(normalized)
         ELSE CreateCommandError(normalized),
         "response")

\* a faulty matched branch that hands the response to the oldest waiter in
\* the table instead of the one registered under its id (C3 rejects it)
ResolveMatchedOldest(c, normalized) ==
  LET oldest == CHOOSE k \in DOMAIN c.pending :
                  \A k2 \in DOMAIN c.pending : c.pending[k] <= c.pending[k2]
  IN  Settle([c EXCEPT !.pending = MapDelete(@, oldest)],
             c.pending[oldest],
             IF normalized.success THEN ResultOutcome(normalized)
             ELSE CreateCommandError(normalized),
             "response")

\* the matched branch of _processIncomingXml: the waiter registered under
\* transactionId is removed and settled
ResolveMatched(c, normalized) ==
  Settle([c EXCEPT !.pending = MapDelete(@, normalized.transactionId)],
         c.pending[normalized.transactionId],
         IF normalized.success THEN ResultOutcome(normalized)
         ELSE CreateCommandError(normalized),
         "response")

\* a faulty unmatched branch that emits 'response' and never 'error' (C7
\* rejects it)
EmitUnmatchedWithoutError(c, normalized) ==
  [c EXCEPT !.trace = Append(@, Ev("response", normalized.transactionId))]

\* the unmatched branch: 'response', and the Protocol Error that _handleData
\* emits as 'error' when the response is a failure
EmitUnmatched(c, normalized) ==
  IF ~normalized.success
  THEN [c EXCEPT !.trace = @ \o << Ev("response", normalized.transactionId),
                                   Ev("error", "EppCommandError") >>]
  ELSE [c EXCEPT !.trace = Append(@, Ev("response", normalized.transactionId))]

\* a faulty _processIncomingXml that emits 'message' after the specific
\* handling instead of before it
ProcessIncomingXmlMessageLast(c, xml) ==
  LET p == ParseXml(xml)
      normalized == NormalizeEppResponse(p.parsed)
      transactionId == normalized.transactionId
      handled == IF normalized.type = "greeting"
                 THEN [c EXCEPT !.trace = Append(@, Ev("greeting", ""))]
                 ELSE IF transactionId # "" /\ transactionId \in DOMAIN c.pending
                 THEN ResolveMatched(c, normalized)
                 ELSE EmitUnmatched(c, normalized)
  IN
  IF ~p.ok THEN [c EXCEPT !.trace = Append(@, Ev("error", ErrParse))]
  ELSE [handled EXCEPT !.trace = Append(@, Ev("message", transactionId))]

\* a faulty _processIncomingXml that gives up the pending commands when a
\* frame cannot be parsed (C30 rejects it)
ProcessIncomingXmlFailPending(c, xml) ==
  LET p == ParseXml(xml)
      normalized == NormalizeEppResponse(p.parsed)
      transactionId == normalized.transactionId
      c1 == [c EXCEPT !.trace = Append(@, Ev("message", transactionId))]
  IN
  IF ~p.ok
  THEN ResolveAll([c EXCEPT !.trace = Append(@, Ev("error", ErrParse))],
                  ErrorOutcome(ErrParse))
  ELSE IF normalized.type = "greeting"
  THEN [c1 EXCEPT !.trace = Append(@, Ev("greeting", ""))]
  ELSE IF transactionId # "" /\ transactionId \in DOMAIN c1.pending
  THEN ResolveMatched(c1, normalized)
  ELSE EmitUnmatched(c1, normalized)

\* _processIncomingXml(xml) once the parse has completed, followed by the
\* emit of _handleData when it returns an Error
ProcessIncomingXml(c, xml) ==
  LET p == ParseXml(xml)
      normalized == NormalizeEppResponse(p.parsed)
      transactionId == normalized.transactionId
      c1 == [c EXCEPT !.trace = Append(@, Ev("message", transactionId))]
  IN
  IF ~p.ok THEN [c EXCEPT !.trace = Append(@, Ev("error", ErrParse))]
  ELSE IF normalized.type = "greeting"
  THEN [c1 EXCEPT !.trace = Append(@, Ev("greeting", ""))]
  ELSE IF transactionId # "" /\ transactionId \in DOMAIN c1.pending
  THEN ResolveMatched(c1, normalized)
  ELSE EmitUnmatched(c1, normalized)

\* the extraction loop of _handleData on buffer buf, from the top of the
\* while to the next await, return or endless spin
ResumeLoop(buf, c, waiting) ==
  LET x == ExtractNext(buf)
  IN  /\ _buffer' = x.buf
      /\ spinning' = x.spin
      /\ runs' = IF x.found THEN Append(waiting, x.xml) ELSE waiting
      /\ feed' = IF x.found /\ feed.on
                 THEN [feed EXCEPT !.xmls = Append(@, x.xml)]
                 ELSE feed
      /\ Becomes(IF x.found
                 THEN [c EXCEPT !.trace = Append(@, Ev("received", ""))]
                 ELSE c)

\* 'data' on socket s: _onData -> _handleData(chunk) up to its first await,
\* with at most maxRuns runs of the handler suspended at a time
SocketDataWith(s, chunk, maxRuns) ==
  /\ ~spinning
  /\ sockets[s].phase \in {"open", "ending"}
  /\ sockets[s].attached
  /\ IF feed.on
     THEN /\ incoming # << >>
          /\ chunk = Head(incoming)
          /\ incoming' = Tail(incoming)
     ELSE /\ Len(_buffer) + Len(chunk) <= MaxBuf
          /\ incoming' = incoming
  /\ Len(runs) < maxRuns
  /\ ResumeLoop(_buffer \o chunk, Client, runs)
  /\ UNCHANGED <<_config, _transactionIdCounter, nConnect>>

SocketData(s, chunk) == SocketDataWith(s, chunk, MaxRuns)

\* a faulty scheduling in which the newest suspended run resumes first
\* (C35 rejects it)
ParseDoneNewestFirst ==
  /\ ~spinning
  /\ runs # << >>
  /\ ResumeLoop(_buffer, ProcessIncomingXml(Client, runs[Len(runs)]),
                SubSeq(runs, 1, Len(runs) - 1))
  /\ UNCHANGED <<_config, incoming, _transactionIdCounter, nConnect>>

\* the parse awaited by the oldest suspended run completes: the rest of
\* _processIncomingXml, then _handleData goes on with its loop
ParseDone ==
  /\ ~spinning
  /\ runs # << >>
  /\ ResumeLoop(_buffer, ProcessIncomingXml(Client, Head(runs)), Tail(runs))
  /\ UNCHANGED <<_config, incoming, _transactionIdCounter, nConnect>>

\* the steps of the instance in environment env
ConnectIn(env) == Connect(env.maxSockets)
SecureConnectIn(env) == \E s \in DOMAIN sockets : SecureConnect(s)
SocketErrorIn(env) == \E s \in DOMAIN sockets, d \in BOOLEAN : SocketError(s, d)
SocketCloseIn(env) == \E s \in DOMAIN sockets : SocketClose(s)
DestroyIn(env) == \E e \in DestroyArgs : Destroy(e)
SendCommandIn(env) ==
  \E x \in env.xmls, t \in env.ids, to \in env.timeouts, w \in BOOLEAN :
    SendCommand(x, t, to, w, env.maxCalls)
TimerFireIn(env) == \E i \in DOMAIN calls : TimerFire(i)
SocketDataIn(env) == \E s \in DOMAIN sockets, ch \in env.chunks : SocketData(s, ch)

Next ==
  \/ ConnectIn(LifeEnv)
  \/ SecureConnectIn(LifeEnv)
  \/ SocketErrorIn(LifeEnv)
  \/ SocketCloseIn(LifeEnv)
  \/ Disconnect
  \/ DestroyIn(LifeEnv)
  \/ SendCommandIn(LifeEnv)
  \/ TimerFireIn(LifeEnv)
  \/ SocketDataIn(LifeEnv)
  \/ ParseDone

Spec == Init /\ [][Next]_vars

NextCorr ==
  \/ ConnectIn(CorrEnv)
  \/ SecureConnectIn(CorrEnv)
  \/ SocketErrorIn(CorrEnv)
  \/ SocketCloseIn(CorrEnv)
  \/ Disconnect
  \/ DestroyIn(CorrEnv)
  \/ SendCommandIn(CorrEnv)
  \/ TimerFireIn(CorrEnv)
  \/ SocketDataIn(CorrEnv)
  \/ ParseDone

SpecCorr == Init /\ [][NextCorr]_vars

(* ------------------------------ properties ---------------------------- *)

\* the events of the last step
Events(tr) == {tr[n] : n \in DOMAIN tr}
Emitted(tr, name) == \E e \in Events(tr) : e.ev = name

\* the normalized result of the document whose parse completes next
Dispatched == NormalizeEppResponse(ParseXml(Head(runs)).parsed)

\* the step completes the dispatch of a response whose clTRID is a key of
\* the pending table
MatchedStep ==
  /\ ParseDone
  /\ ParseXml(Head(runs)).ok
  /\ ~ParseXml(Head(runs)).parsed.greeting
  /\ Dispatched.transactionId \in DOMAIN _pending

\* the step completes the dispatch of a response that has no clTRID or
\* whose clTRID is no key of the pending table
UnmatchedStep ==
  /\ ParseDone
  /\ ParseXml(Head(runs)).ok
  /\ ~ParseXml(Head(runs)).parsed.greeting
  /\ Dispatched.transactionId \notin DOMAIN _pending

\* the step completes the dispatch of a greeting
GreetingStep ==
  /\ ParseDone
  /\ ParseXml(Head(runs)).ok
  /\ ParseXml(Head(runs)).parsed.greeting

\* C1: every sendCommand call that registered a waiter is resolved exactly
\* once: it is never resolved twice; it is not left unresolved once the close
\* handling of its connection has run (the instance holds no socket any
\* more); and a resolved call has no pending entry left.
C1_ResolvedExactlyOnce ==
  \A i \in DOMAIN calls :
    /\ calls[i].settles <= 1
    /\ (calls[i].settles = 0) => _socket # 0
    /\ (calls[i].settles = 1) => (\A k \in DOMAIN _pending : _pending[k] # i)

\* C2: when a response is dispatched whose clTRID is a key of the pending
\* table, the entry is removed, the timer of its call is cancelled, the call
\* is resolved (once) with the normalized result when success is true and
\* with the Protocol Error carrying the result code otherwise, and neither
\* 'response' nor 'error' is emitted.
C2_MatchedResponse ==
  [][MatchedStep =>
       LET n == Dispatched
           i == _pending[n.transactionId]
       IN  /\ n.transactionId \notin DOMAIN _pending'
           /\ calls[i].settles = 0
           /\ calls'[i].settles = 1
           /\ calls'[i].timer = 0
           /\ \E e \in Events(trace') :
                /\ e.ev = "settle"
                /\ e.call = i
                /\ e.out.tid = n.transactionId
                /\ e.out.code = n.resultCode
                /\ IF n.success
                   THEN e.out.kind = "result" /\ e.out.success
                   ELSE e.out.kind = "error" /\ e.out.err = "EppCommandError"
                        /\ ~e.out.success
           /\ ~Emitted(trace', "response")
           /\ ~Emitted(trace', "error")]_vars

\* a matched failure response has just resolved its caller with the
\* Protocol Error
C2_Witness ==
  \E e \in Events(trace) :
    /\ e.ev = "settle"
    /\ e.out.err = "EppCommandError"
    /\ e.out.code = NumCode(2303)
    /\ calls[e.call].via = "response"
    /\ calls[e.call].tid \notin DOMAIN _pending

\* C3: a dispatched response resolves the waiter registered under its
\* clTRID and no other: every other call, its timer and its pending entry
\* stay as they were, in whatever order the responses arrive; and a result
\* or Protocol Error a caller receives carries the id it registered under.
C3_OnlyMatchingWaiter ==
  /\ [](\A e \in Events(trace) :
          (e.ev = "settle" /\ e.out.tid # "") => e.out.tid = calls[e.call].tid)
  /\ [][MatchedStep =>
          LET tid == Dispatched.transactionId
              i == _pending[tid]
          IN  /\ calls[i].tid = tid
              /\ \A j \in DOMAIN calls \ {i} : calls'[j] = calls[j]
              /\ \A k \in DOMAIN _pending \ {tid} :
                   k \in DOMAIN _pending' /\ _pending'[k] = _pending[k]
              /\ \A e \in Events(trace') : e.ev = "settle" => e.call = i]_vars

\* two commands are outstanding under t1 and t2 and the response to the
\* later one has arrived first: it resolved that caller, the earlier one waits
C3_Witness ==
  /\ Len(calls) = 2
  /\ calls[1].tid = "t1" /\ calls[2].tid = "t2"
  /\ \E e \in Events(trace) :
       e.ev = "settle" /\ e.call = 2 /\ e.out.kind = "result" /\ e.out.tid = "t2"
  /\ calls[1].settles = 0
  /\ "t1" \in DOMAIN _pending /\ _pending["t1"] = 1

\* the step dispatches a response carrying the id of call i, which its
\* timer has resolved
LateStep(i) ==
  /\ ParseDone
  /\ ParseXml(Head(runs)).ok
  /\ ~ParseXml(Head(runs)).parsed.greeting
  /\ calls[i].via = "timer"
  /\ Dispatched.transactionId = calls[i].tid

C6_CloseOncePerConnection ==
  /\ [](nClose <= nConnect)
  /\ []((\A s \in DOMAIN sockets : sockets[s].phase = "closed")
          => nClose = nConnect)
  /\ [][Emitted(trace', "close") => (_connected /\ ~_connected')]_vars

\* C7: when a response is dispatched that has no clTRID, or whose clTRID is
\* no key of the pending table (unknown, or of a command resolved before),
\* no caller is resolved, the calls, their timers and the pending table stay
\* as they were, 'response' is emitted with it, and the Protocol Error is
\* emitted as 'error' exactly when the response is a failure.
C7_UnmatchedResponse ==
  [][UnmatchedStep =>
       LET n == Dispatched
       IN  /\ calls' = calls
           /\ _pending' = _pending
           /\ ~Emitted(trace', "settle")
           /\ Ev("response", n.transactionId) \in Events(trace')
           /\ (Ev("error", "EppCommandError") \in Events(trace')) <=> ~n.success
           /\ ~Emitted(trace', "greeting")]_vars

\* a failure response carrying the id of a command that was resolved before
\* has been emitted as 'response' and 'error' while another command waits
C7_Witness ==
  /\ \E i \in DOMAIN calls :
       /\ calls[i].settles = 1
       /\ Ev("response", calls[i].tid) \in Events(trace)
  /\ Ev("error", "EppCommandError") \in Events(trace)
  /\ \E j \in DOMAIN calls : calls[j].settles = 0 /\ calls[j].timer > 0
  /\ _pending # EmptyMap

\* C8: when a greeting is dispatched, 'greeting' is emitted, no caller is
\* resolved, and the calls, their timers and the pending table stay as they
\* were, whatever else the document carries.
C8_GreetingResolvesNothing ==
  [][GreetingStep =>
       /\ Emitted(trace', "greeting")
       /\ ~Emitted(trace', "settle")
       /\ ~Emitted(trace', "response")
       /\ calls' = calls
       /\ _pending' = _pending]_vars

\* a greeting has been emitted while a command registered under t1 waits
\* with its timer armed
C8_Witness ==
  /\ Emitted(trace, "greeting")
  /\ "t1" \in DOMAIN _pending
  /\ calls[_pending["t1"]].timer > 0
  /\ calls[_pending["t1"]].settles = 0

\* C9: a sendCommand call on an instance that is not connected returns the
\* not-connected error at once and changes nothing: no call is registered,
\* the pending table, the timers and the id counter stay as they were,
\* nothing is written and 'sent' is not emitted.
C9_NotConnectedChangesNothing ==
  [][\A x \in LifeEnv.xmls, t \in LifeEnv.ids, to \in LifeEnv.timeouts,
        w \in BOOLEAN :
       (~_connected /\ SendCommand(x, t, to, w, LifeEnv.maxCalls)) =>
         /\ trace' = << Ev("sendCommand.return", ErrNotConnected) >>
         /\ UNCHANGED <<_config, incoming, feed, _socket, _connected, _buffer, _pending,
                        _transactionIdCounter, sockets, calls, spinning, runs,
                        nConnect, nClose>>]_vars

\* sendCommand has just returned the not-connected error on an instance
\* whose connection was closed before
C9_Witness ==
  /\ trace = << Ev("sendCommand.return", ErrNotConnected) >>
  /\ nConnect = 1
  /\ nClose = 1
  /\ ~_connected

\* C10: when the write of a sendCommand call throws, the call is resolved
\* with the write error, its id is not in the pending table, 'sent' is not
\* emitted, and the pending table and the armed timers are as they were
\* before the call.
C10_WriteFailureRestores ==
  [][\A x \in CorrEnv.xmls, t \in CorrEnv.ids, to \in CorrEnv.timeouts :
       (/\ EnsureConnected(_socket, _connected)
        /\ PrepareCommand(x, t, _transactionIdCounter).ok
        /\ SendCommand(x, t, to, TRUE, CorrEnv.maxCalls)) =>
         LET i == Len(calls) + 1
             tid == PrepareCommand(x, t, _transactionIdCounter).transactionId
         IN  /\ Len(calls') = i
             /\ calls'[i].settles = 1
             /\ calls'[i].timer = 0
             /\ Settled(i, ErrorOutcome(WriteErr)) \in Events(trace')
             /\ ~Emitted(trace', "sent")
             /\ tid \notin DOMAIN _pending'
             /\ \A j \in DOMAIN calls : calls'[j] = calls[j]
             /\ _pending' = _pending]_vars

(* --------------------- configuration and timeouts --------------------- *)

\* configurations for the checks of validate() and of the timers: valid with
\* the default timeout, valid with timers disabled by default, and one for
\* each way validate() can fail
ConfConfigs ==
  { Config("epp.example", 700, DefaultTimeoutMs, {}),
    Config("epp.example", 700, 0, {}),
    Config("", 700, DefaultTimeoutMs, {}),
    Config("epp.example", 0, DefaultTimeoutMs, {}),
    Config("epp.example", 65536, DefaultTimeoutMs, {}),
    Config("epp.example", 700, DefaultTimeoutMs, {"port"}),
    Config("epp.example", 700, 0 - 1, {}),
    Config("epp.example", 700, 1, {"defaultTimeout"}) }

ConfEnv ==
  [maxSockets |-> CorrSockets, maxCalls |-> MaxCalls,
   xmls |-> {XmlWithId}, ids |-> {Undef},
   timeouts |-> {NoTimeout, TimeoutOf(0 - 1), TimeoutOf(0), TimeoutOf(5)},
   chunks |-> {DocFrame(2)}]

InitConf == InitWith(ConfConfigs)

NextConf ==
  \/ ConnectIn(ConfEnv)
  \/ SecureConnectIn(ConfEnv)
  \/ SocketErrorIn(ConfEnv)
  \/ SocketCloseIn(ConfEnv)
  \/ Disconnect
  \/ DestroyIn(ConfEnv)
  \/ SendCommandIn(ConfEnv)
  \/ TimerFireIn(ConfEnv)
  \/ SocketDataIn(ConfEnv)
  \/ ParseDone

SpecConf == InitConf /\ [][NextConf]_vars

\* C11: a sendCommand call that registers a waiter arms a timer with the
\* per-call timeout when one is given, else with the configured default,
\* when that value is positive, and arms no timer when it is 0 or less; a
\* timer is never armed later, and only a call whose timer is armed is
\* resolved by a timeout.
C11_EffectiveTimeout ==
  [][/\ \A x \in ConfEnv.xmls, t \in ConfEnv.ids, to \in ConfEnv.timeouts,
          w \in BOOLEAN :
          (/\ _socket # 0 /\ _connected
           /\ SendCommand(x, t, to, w, ConfEnv.maxCalls)
           /\ Len(calls') = Len(calls) + 1) =>
            LET effective == IF to.given THEN to.ms ELSE _config.defaultTimeout
                i == Len(calls) + 1
            IN  IF w THEN calls'[i].timer = 0 /\ calls'[i].via = "write"
                ELSE /\ calls'[i].via = ""
                     /\ calls'[i].timer = IF effective > 0 THEN effective ELSE 0
     /\ \A i \in DOMAIN calls :
          /\ calls'[i].timer \in {0, calls[i].timer}
          /\ (calls'[i].via = "timer" /\ calls[i].via # "timer") =>
               calls[i].timer > 0
          /\ (\E e \in Events(trace') :
                e.ev = "settle" /\ e.call = i /\ e.out.err = ErrTimeout) =>
               calls[i].timer > 0]_vars

\* a command sent with a per-call timeout of 5 ms on an instance whose
\* default is 60000 ms waits with a 5 ms timer
C11_Witness ==
  /\ _config.defaultTimeout = DefaultTimeoutMs
  /\ \E i \in DOMAIN calls :
       calls[i].timer = 5 /\ calls[i].settles = 0 /\ calls[i].tid \in DOMAIN _pending

\* what validate() is specified to reject
InvalidConfig(config) ==
  \/ config.host = ""
  \/ "port" \in config.nonInteger
  \/ config.port < 1
  \/ config.port > 65535
  \/ "defaultTimeout" \in config.nonInteger
  \/ config.defaultTimeout < 0

\* C12: with an invalid configuration connect() returns an error and no
\* socket is ever opened; when the handshake of a socket fails connect()
\* returns the error, no listener of the client is on the socket, neither
\* 'connect' nor 'close' is emitted, and an instance that held no connection
\* holds none afterwards.
C12_NoPartialConnection ==
  /\ [](InvalidConfig(_config) =>
          (sockets = << >> /\ _socket = 0 /\ ~_connected /\ nConnect = 0))
  /\ [][/\ (InvalidConfig(_config) /\ Connect(ConfEnv.maxSockets)) =>
            (\E e \in Events(trace') :
               e.ev = "connect.resolve" /\ e.arg \in {ErrHost, ErrPort, ErrDefaultTimeout})
        /\ \A s \in DOMAIN sockets, d \in BOOLEAN :
             (sockets[s].phase = "handshaking" /\ SocketError(s, d)) =>
               /\ Ev("connect.resolve", SocketErr) \in Events(trace')
               /\ ~Emitted(trace', "connect")
               /\ ~Emitted(trace', "close")
               /\ ~sockets'[s].attached
               /\ sockets'[s].phase = "destroyed"
               /\ _socket' = _socket
               /\ _connected' = _connected
               /\ nConnect' = nConnect
               /\ (_socket = 0) => (_socket' = 0 /\ ~_connected')]_vars

\* the handshake of the only socket has failed: connect() has returned the
\* error and the instance is disconnected
C12_Witness ==
  /\ Ev("connect.resolve", SocketErr) \in Events(trace)
  /\ Len(sockets) = 1
  /\ sockets[1].phase = "destroyed"
  /\ ~sockets[1].attached
  /\ _socket = 0
  /\ ~_connected
  /\ nConnect = 0

\* the sockets of the instance that are open or opening
LiveSockets ==
  {s \in DOMAIN sockets : sockets[s].phase \in {"handshaking", "open", "ending"}}

\* C13: the instance has at most one socket open or opening at any time and
\* at most one socket carrying its listeners, however connect() calls
\* interleave; and connect() on an instance that has a connection returns
\* the already-connected error and changes nothing.
C13_SingleConnection ==
  /\ [](Cardinality(LiveSockets) <= 1)
  /\ [](Cardinality({s \in DOMAIN sockets :
                       sockets[s].attached /\ sockets[s].phase # "closed"}) <= 1)
  /\ [][(_socket # 0 /\ Connect(LifeEnv.maxSockets)) =>
          /\ trace' = << Ev("connect.resolve", ErrAlready) >>
          /\ UNCHANGED <<_config, incoming, feed, _socket, _connected, _buffer, _pending,
                         _transactionIdCounter, sockets, calls, spinning, runs,
                         nConnect, nClose>>]_vars

\* the step runs _handleClose: destroy(), or a 'close' of a socket that
\* carries the client's listeners
CloseHandlingStep ==
  \/ \E e \in DestroyArgs : Destroy(e)
  \/ \E s \in DOMAIN sockets : sockets[s].attached /\ SocketClose(s)

\* C14: isConnected becomes true only in the step in which the handshake of
\* a connect() succeeds, and false only in a step that runs close handling;
\* close handling leaves the instance disconnected without a socket; while
\* it is disconnected no sendCommand registers, writes or emits 'sent'; and
\* a later successful handshake makes it connected again.
C14_LifecycleCycle ==
  [][/\ (~_connected /\ _connected') =>
          \E s \in DOMAIN sockets :
            /\ sockets[s].phase = "handshaking"
            /\ SecureConnect(s)
            /\ Emitted(trace', "connect")
     /\ (_connected /\ ~_connected') =>
          (CloseHandlingStep /\ Emitted(trace', "close"))
     /\ CloseHandlingStep =>
          (~_connected' /\ _socket' = 0 /\ _pending' = EmptyMap)
     /\ ~_connected =>
          /\ Len(calls') = Len(calls)
          /\ ~Emitted(trace', "write")
          /\ ~Emitted(trace', "sent")
     /\ \A s \in DOMAIN sockets :
          SecureConnect(s) => (_connected' /\ _socket' = s)]_vars

\* after one connection was closed and a second connect() succeeded, a
\* command sent on the instance has been resolved by its response
C14_Witness ==
  /\ nConnect = 2
  /\ nClose = 1
  /\ _connected
  /\ Len(calls) = 1
  /\ calls[1].via = "response"
  /\ \E e \in Events(trace) : e.ev = "settle" /\ e.call = 1 /\ e.out.kind = "result"

\* C15: disconnect() on an instance that refers to no socket resolves with
\* null in the same step and changes nothing else: no notification, and the
\* connection state, the sockets, the receive buffer, the pending table and
\* the calls stay as they were.
C15_DisconnectWithoutSocket ==
  [][(_socket = 0 /\ Disconnect) =>
       /\ trace' = << Ev("disconnect.resolve", "null") >>
       /\ UNCHANGED <<_config, incoming, feed, _socket, _connected, _buffer, _pending,
                      _transactionIdCounter, sockets, calls, spinning, runs,
                      nConnect, nClose>>]_vars

\* disconnect() has just resolved with null on an instance whose connection
\* was closed before and which refers to no socket
C15_Witness ==
  /\ trace = << Ev("disconnect.resolve", "null") >>
  /\ _socket = 0
  /\ ~_connected
  /\ nClose = 1
  /\ \A s \in DOMAIN sockets : sockets[s].phase = "closed"

\* the step resolves a disconnect() promise with null on a socket
DisconnectResolvedNull ==
  \E s \in DOMAIN sockets :
    /\ sockets[s].disc > 0
    /\ SocketClose(s)
    /\ Ev("disconnect.resolve", "null") \in Events(trace')

\* C16: disconnect() on a connected instance resolves no pending command
\* itself and leaves the calls and the pending table as they are; and in the
\* step in which a disconnect() promise resolves with null the instance is
\* not connected, refers to no socket, has an empty pending table, and every
\* command that was in the table has been resolved with the closure reason.
C16_DisconnectAfterCloseHandling ==
  [][/\ (_socket # 0 /\ Disconnect) =>
          /\ ~Emitted(trace', "settle")
          /\ ~Emitted(trace', "disconnect.resolve")
          /\ UNCHANGED <<_socket, _connected, _pending, calls, nClose>>
     /\ DisconnectResolvedNull =>
          /\ ~_connected'
          /\ _socket' = 0
          /\ _pending' = EmptyMap
          /\ \A k \in DOMAIN _pending :
               /\ calls'[_pending[k]].settles = 1
               /\ \E e \in Events(trace') :
                    /\ e.ev = "settle" /\ e.call = _pending[k]
                    /\ e.out.err \in {ErrClosed, ErrUnexpected}]_vars

MaxPayload == 3
MaxFrames == 3
MaxReads == 3

\* the bytes a payload is made of: NUL, whitespace, and the texts of two
\* documents of Docs
PayloadBytes == {NUL, SP, 1, 2}

\* every sequence over set of length at most n
SeqsUpTo(set, n) == UNION { [1..k -> set] : k \in 0..n }

\* the registry's stream: the frames of the payloads, one behind the other
RECURSIVE EncodeStream(_)
EncodeStream(payloads) ==
  IF payloads = << >> THEN << >>
  ELSE EncodeFrame(Head(payloads)) \o EncodeStream(Tail(payloads))

\* bytes cut into consecutive non-empty reads after the offsets in cuts
ReadsOf(bytes, cuts) ==
  LET B == cuts \cup {0, Len(bytes)}
      Kth(k) == CHOOSE b \in B : Cardinality({x \in B : x < b}) = k - 1
  IN  [i \in 1..(Cardinality(B) - 1) |-> SubSeq(bytes, Kth(i) + 1, Kth(i + 1))]

\* the instance after construction, and a registry about to send payloads
\* cut into reads
InitFeed(payloads, reads) ==
  /\ _config = Config("epp.example", 700, DefaultTimeoutMs, {})
  /\ _socket = 0
  /\ _connected = FALSE
  /\ _buffer = << >>
  /\ _pending = EmptyMap
  /\ _transactionIdCounter = 0
  /\ sockets = << >>
  /\ calls = << >>
  /\ spinning = FALSE
  /\ runs = << >>
  /\ trace = << >>
  /\ nConnect = 0
  /\ nClose = 0
  /\ incoming = reads
  /\ feed = [on |-> TRUE, sent |-> payloads, cut |-> reads, xmls |-> << >>]

\* one frame, every payload up to MaxPayload bytes, every way of cutting it
InitFrame ==
  \E payload \in SeqsUpTo(PayloadBytes, MaxPayload) :
    \E cuts \in SUBSET (1..(Len(EncodeFrame(payload)) - 1)) :
      InitFeed(<< payload >>, ReadsOf(EncodeFrame(payload), cuts))

\* 'data' with the next read of the registry's stream
Read == \E s \in DOMAIN sockets : SocketData(s, Head(incoming))

\* the stream is that of one connection: connect() is called once
FrameEnv ==
  [maxSockets |-> 1, maxCalls |-> 0, xmls |-> {}, ids |-> {},
   timeouts |-> {}, chunks |-> {}]

NextFrame ==
  \/ ConnectIn(FrameEnv)
  \/ SecureConnectIn(FrameEnv)
  \/ Read
  \/ ParseDone

SpecFrame == InitFrame /\ [][NextFrame]_vars

\* every read of the stream has been delivered
AllRead == feed.on /\ incoming = << >>

\* String.prototype.trim of a payload, the NUL bytes kept
Trimmed(payload) == Trim(payload, {SP})

StreamPayloads == {<< 1 >>, << 2 >>, << 1, 2 >>}

\* one to MaxFrames frames in a row, cut into at most MaxReads reads
InitStream ==
  \E payloads \in SeqsUpTo(StreamPayloads, MaxFrames) :
    /\ payloads # << >>
    /\ \E cuts \in SUBSET (1..(Len(EncodeStream(payloads)) - 1)) :
         /\ Cardinality(cuts) < MaxReads
         /\ InitFeed(payloads, ReadsOf(EncodeStream(payloads), cuts))

SpecStream == InitStream /\ [][NextFrame]_vars

\* the bytes of reads, one read behind the other
RECURSIVE Concat(_)
Concat(reads) ==
  IF reads = << >> THEN << >> ELSE Head(reads) \o Concat(Tail(reads))

\* the bytes of the stream that the reads delivered so far hold
Delivered ==
  SubSeq(EncodeStream(feed.sent), 1,
         Len(EncodeStream(feed.sent)) - Len(Concat(incoming)))

\* the number of frames of the stream that lie completely within its first
\* n bytes
CompleteIn(n) ==
  LET fits == {j \in 0..Len(feed.sent) :
                 Len(EncodeStream(SubSeq(feed.sent, 1, j))) <= n}
  IN  CHOOSE j \in fits : \A k \in fits : k <= j

\* C19: the payloads yielded so far are the first payloads of the stream,
\* in stream order, and only of frames that have arrived completely (no
\* partial payload).  When no run of the handler is suspended, every frame
\* that has arrived completely has been yielded (a read of N complete frames
\* and a partial one has yielded the N payloads) and the receive buffer holds
\* exactly the bytes that arrived of the partial frame, so that the frame is
\* yielded by the read that brings its last byte.
C19_CompleteFramesOnly ==
  feed.on =>
    LET done == CompleteIn(Len(Delivered))
        used == Len(EncodeStream(SubSeq(feed.sent, 1, done)))
    IN  /\ Len(feed.xmls) <= done
        /\ feed.xmls = SubSeq(feed.sent, 1, Len(feed.xmls))
        /\ runs = << >> =>
             /\ Len(feed.xmls) = done
             /\ _buffer = SubSeq(Delivered, used + 1, Len(Delivered))

\* the first read held two complete frames and the first bytes of a third:
\* the two payloads have been yielded in order, the bytes of the third wait
\* in the buffer and a read is still to come
C19_Witness ==
  /\ feed.on
  /\ feed.sent = << << 1 >>, << 1, 2 >>, << 2 >> >>
  /\ Len(feed.cut) = 2
  /\ Len(feed.cut[1]) = 13
  /\ Len(incoming) = 1
  /\ runs = << >>
  /\ feed.xmls = << << 1 >>, << 1, 2 >> >>
  /\ _buffer = << 0, 0 >>

(* ------------------------- Transaction id choice ----------------------- *)

\* command documents: a <clTRID> with text, the same document with
\* whitespace around it, with an empty element, with a whitespace-only text,
\* with whitespace around the text, with upper-case tags, without the
\* element, and without a command
XmlPadded == << "\n" >> \o XmlWithId \o << "\n" >>
XmlEmptyId == << "<command>", "<check/>", "<clTRID>", "</clTRID>", "</command>" >>
XmlBlankId ==
  << "<command>", "<check/>", "<clTRID>", "    ", "</clTRID>", "</command>" >>
XmlPaddedId ==
  << "<command>", "<check/>", "<clTRID>", " ", "t1", " ", "</clTRID>",
     "</command>" >>
XmlUpperId ==
  << "<command>", "<check/>", "<CLTRID>", "t1", "</CLTRID>", "</COMMAND>" >>

\* empty payloads, and documents without a <clTRID>: with whitespace around
\* the document, with an upper-case closing tag, and with two closing tags
XmlEmpty == << >>
XmlBlank == << "\n", " " >>
XmlNoIdPadded == << "\n" >> \o XmlNoId \o << "\n" >>
XmlUpperNoId == << "<command>", "<check/>", "</COMMAND>" >>
XmlTwoCloses == << "<command>", "</command>", "<check/>", "</command>" >>

PrepEnv ==
  [maxSockets |-> CorrSockets, maxCalls |-> CorrCalls,
   xmls |-> {XmlWithId, XmlPadded, XmlEmptyId, XmlBlankId, XmlPaddedId,
             XmlUpperId, XmlNoId, XmlHello, XmlNoIdPadded, XmlUpperNoId,
             XmlTwoCloses, XmlEmpty, XmlBlank},
   ids |-> {Undef, "", "t2", "a&b", "t$$2", "t$&"},
   timeouts |-> {NoTimeout},
   chunks |-> {}]

\* connecting and sending commands: the steps that reach _prepareCommand
NextPrep ==
  \/ ConnectIn(PrepEnv)
  \/ SecureConnectIn(PrepEnv)
  \/ SendCommandIn(PrepEnv)

SpecPrep == Init /\ [][NextPrep]_vars

\* the document has a <clTRID> element; the trimmed text of its first one
HasClTrid(xml) == ClTridMatches(xml) # {}
ClTridTrimmed(xml) ==
  JoinTokens(Trim(ClTridText(xml, MinOf(ClTridMatches(xml))), WhiteSpace))

\* the step is sendCommand(xml, {transactionId}) registering a waiter and
\* writing the prepared command
PreparedStep(xml, transactionId) ==
  /\ SendCommand(xml, transactionId, NoTimeout, FALSE, PrepEnv.maxCalls)
  /\ Len(calls') = Len(calls) + 1

\* what that step prepared: the id the waiter is registered under, and the
\* document it wrote behind the 4-byte header
PreparedId == calls'[Len(calls')].tid
PreparedXml == SubSeq(trace'[1].data, 5, Len(trace'[1].data))

\* the id a freshly generated one would be
Fresh == NextTransactionId(_transactionIdCounter)

\* C20 as stated: the id is the text of the <clTRID> element when it is not
\* empty, else the provided id when one is given, else a freshly generated
\* one, and the document is returned unmodified; without the element the id
\* is the provided id when one is given, else a freshly generated one.
C20_IdPriorityUnmodified ==
  [][\A xml \in PrepEnv.xmls, transactionId \in PrepEnv.ids :
       PreparedStep(xml, transactionId) =>
         IF HasClTrid(xml)
         THEN /\ PreparedXml = xml
              /\ PreparedId = IF ClTridTrimmed(xml) # "" THEN ClTridTrimmed(xml)
                              ELSE IF transactionId # Undef THEN transactionId
                              ELSE Fresh
         ELSE PreparedId = IF transactionId # Undef THEN transactionId
                           ELSE Fresh]_vars

\* C20 amended: with a <clTRID> element the id is its trimmed text when that
\* is not empty (the provided id is ignored, no id is generated), else the
\* provided id when that is a non-empty string, else a freshly generated
\* one; in both cases the document is returned with the whitespace around it
\* trimmed and otherwise unmodified.  Without the element the id is the
\* provided id when one is given, the empty string included, else a freshly
\* generated one.  An id is generated only where a fresh one is used.
C20_IdPriority ==
  [][\A xml \in PrepEnv.xmls, transactionId \in PrepEnv.ids :
       PreparedStep(xml, transactionId) =>
         /\ IF HasClTrid(xml)
            THEN /\ PreparedXml = Trim(xml, WhiteSpace)
                 /\ PreparedId =
                      IF ClTridTrimmed(xml) # "" THEN ClTridTrimmed(xml)
                      ELSE IF transactionId \notin {Undef, ""} THEN transactionId
                      ELSE Fresh
            ELSE PreparedId = IF transactionId # Undef THEN transactionId
                              ELSE Fresh
         /\ _transactionIdCounter' =
              IF PreparedId = Fresh THEN _transactionIdCounter + 1
              ELSE _transactionIdCounter]_vars

\* a command whose <clTRID> is blank was sent with the provided id t2 after
\* one that got a generated id: the second waits under t2
C20_Witness ==
  /\ Len(calls) = 2
  /\ calls[1].tid = "tx-1"
  /\ calls[2].tid = "t2"
  /\ calls[2].settles = 0
  /\ Len(trace) = 2
  /\ trace[1] = Written("t2", EncodeFrame(XmlBlankId))
  /\ _transactionIdCounter = 1

\* C21: when sendCommand prepares a document that has a </command> closing
\* tag and no <clTRID> element, the document it writes is the (trimmed)
\* document with one <clTRID> element put in front of its first </command>
\* closing tag, only whitespace around the element; the element holds the
\* provided or generated id (escaped for XML), it is the only <clTRID> of the
\* document, and everything before and after is as it was.
C21_InjectedBeforeCommandClose ==
  [][\A xml \in PrepEnv.xmls, transactionId \in PrepEnv.ids :
       (PreparedStep(xml, transactionId) /\ ~HasClTrid(xml)) =>
         LET t == Trim(xml, WhiteSpace)
             k == MinOf(CommandCloses(t))
             out == PreparedXml
         IN  /\ Len(out) = Len(t) + 5
             /\ SubSeq(out, 1, k - 1) = SubSeq(t, 1, k - 1)
             /\ out[k] \in WhiteSpace
             /\ out[k + 1] = "<clTRID>"
             /\ out[k + 2] = EscapeXml(PreparedId)
             /\ out[k + 3] = "</clTRID>"
             /\ out[k + 4] \in WhiteSpace
             /\ Lower(out[k + 5]) = "</command>"
             /\ SubSeq(out, k + 6, Len(out)) = SubSeq(t, k + 1, Len(t))
             /\ Cardinality({i \in 1..Len(out) : Lower(out[i]) = "<clTRID>"}) = 1
             /\ PreparedId = IF transactionId # Undef THEN transactionId
                             ELSE Fresh]_vars

\* _prepareCommand has nothing to send for the document: it is empty after
\* trimming, or has neither a <clTRID> element nor a </command> closing tag
Rejected(xml) ==
  \/ Trim(xml, WhiteSpace) = << >>
  \/ ~HasClTrid(Trim(xml, WhiteSpace)) /\ CommandCloses(Trim(xml, WhiteSpace)) = {}

\* C22: sendCommand on a connected client with an empty payload, or with a
\* document that has neither a <clTRID> element nor a </command> closing
\* tag, returns the error of _prepareCommand and does nothing else: nothing
\* is written to the socket, no call is registered, the pending table is
\* unchanged and no timer is armed.
C22_RejectedPayload ==
  [][\A xml \in PrepEnv.xmls, transactionId \in PrepEnv.ids,
        to \in PrepEnv.timeouts, w \in BOOLEAN :
       (/\ _socket # 0 /\ _connected
        /\ Rejected(xml)
        /\ SendCommand(xml, transactionId, to, w, PrepEnv.maxCalls)) =>
         /\ trace' = << Ev("sendCommand.return",
                           IF Trim(xml, WhiteSpace) = << >> THEN ErrPayload
                           ELSE ErrNoCommand) >>
         /\ calls' = calls
         /\ _pending' = _pending
         /\ sockets' = sockets
         /\ UNCHANGED <<_socket, _connected, _buffer>>]_vars

\* a connected client that was handed <hello/>, which has no </command>:
\* the call returned the error, no call is registered
C22_Witness ==
  /\ _connected
  /\ trace = << Ev("sendCommand.return", ErrNoCommand) >>
  /\ calls = << >>
  /\ _pending = EmptyMap
  /\ _transactionIdCounter = 1

(* ------------------------ Generated transaction ids -------------------- *)

\* the most generated ids a specification sees
MaxIds == 4

\* EppClientConfig.clone(overrides): an option that overrides does not set
\* is taken from the configuration
Clone(config, overrides) ==
  LET Pick(name) == IF name \in overrides.set THEN overrides[name] ELSE config[name]
      Kind(name) == IF name \in overrides.set
                    THEN {name} \cap overrides.nonInteger
                    ELSE {name} \cap config.nonInteger
  IN  Config(Pick("host"), Pick("port"), Pick("defaultTimeout"),
             Kind("port") \cup Kind("defaultTimeout"))

\* the arguments of configure(): nothing, a default timeout, or a host
Overrides ==
  { [set |-> {}, host |-> "", port |-> 0, defaultTimeout |-> 0, nonInteger |-> {}],
    [set |-> {"defaultTimeout"}, host |-> "", port |-> 0, defaultTimeout |-> 5,
     nonInteger |-> {}],
    [set |-> {"host"}, host |-> "epp.example", port |-> 0, defaultTimeout |-> 0,
     nonInteger |-> {}] }

\* configure(overrides)
Configure(overrides) ==
  /\ ~spinning
  /\ _config' = Clone(_config, overrides)
  /\ _config' # _config
  /\ trace' = << >>
  /\ UNCHANGED <<incoming, feed, _socket, _connected, _buffer, _pending,
                 _transactionIdCounter, sockets, calls, spinning, runs,
                 nConnect, nClose>>

\* commands without a <clTRID>, sent with and without an id, and <hello/>
IdEnv ==
  [maxSockets |-> MaxSockets, maxCalls |-> CorrCalls,
   xmls |-> {XmlNoId, XmlHello}, ids |-> {Undef, "t2"},
   timeouts |-> {NoTimeout},
   chunks |-> {}]

\* the steps that generate ids and the ones the counter has to survive:
\* close, reconnect and configure
NextIds ==
  \/ ConnectIn(IdEnv)
  \/ SecureConnectIn(IdEnv)
  \/ SocketCloseIn(IdEnv)
  \/ Disconnect
  \/ DestroyIn(IdEnv)
  \/ SendCommandIn(IdEnv)
  \/ \E o \in Overrides : Configure(o)

SpecIds == Init /\ [][NextIds]_vars

\* the ids _nextTransactionId can return
Generated == { NextTransactionId(n) : n \in 0..MaxIds }

\* the step is a sendCommand that generates an id: none was provided and
\* the document has no <clTRID> element
GeneratingStep ==
  \E xml \in IdEnv.xmls, to \in IdEnv.timeouts, w \in BOOLEAN :
    /\ _socket # 0 /\ _connected
    /\ ~HasClTrid(xml)
    /\ SendCommand(xml, Undef, to, w, IdEnv.maxCalls)

\* C23: the counter never goes down, whatever the step (close, reconnect
\* and configure included), and goes up by one with every generated id;
\* the id generated for counter value n differs from the one for every
\* other value; so the generated ids under which calls were registered are
\* pairwise distinct.
C23_GeneratedIdsDistinct ==
  /\ [][_transactionIdCounter' >= _transactionIdCounter]_vars
  /\ [][GeneratingStep =>
          /\ _transactionIdCounter' = _transactionIdCounter + 1
          /\ Len(calls') > Len(calls) =>
               calls'[Len(calls')].tid = NextTransactionId(_transactionIdCounter)]_vars
  /\ [](\A m, n \in 0..MaxIds :
          NextTransactionId(m) = NextTransactionId(n) => m = n)
  /\ [](\A i, j \in DOMAIN calls :
          (calls[i].tid \in Generated /\ calls[i].tid = calls[j].tid) => i = j)

\* a command got a generated id, the connection closed and resolved it, the
\* client connected again and the next command got another generated id
C23_Witness ==
  /\ nConnect = 2
  /\ _connected
  /\ Len(calls) = 2
  /\ calls[1].tid = "tx-1"
  /\ calls[1].via = "flush"
  /\ calls[2].tid = "tx-2"
  /\ calls[2].settles = 0

(* ----------------------------- Result codes ---------------------------- *)

\* every document of Docs arrives, one command under t1 is sent
NormEnv ==
  [maxSockets |-> CorrSockets, maxCalls |-> MaxCalls,
   xmls |-> {XmlWithId}, ids |-> {Undef},
   timeouts |-> {NoTimeout},
   chunks |-> {DocFrame(k) : k \in 1..Len(Docs)}]

NextNorm ==
  \/ ConnectIn(NormEnv)
  \/ SecureConnectIn(NormEnv)
  \/ SendCommandIn(NormEnv)
  \/ SocketDataIn(NormEnv)
  \/ ParseDone

SpecNorm == Init /\ [][NextNorm]_vars

\* the code attribute of the first result of a parsed response, Undef when
\* there is no result, no attribute, or an empty one
FirstCode(parsed) ==
  IF parsed.results = << >> \/ parsed.results[1].code = ""
  THEN Undef ELSE parsed.results[1].code

\* the code texts of the model that denote a number below 2000
Below2000 == {"1000", "1300", "1999"}

\* the step completes the parse of a document
ParsedStep == ParseDone /\ ParseXml(Head(runs)).ok

\* C24: the normalized result of a greeting is a success with a null result
\* code, whatever the document carries; that of a response is a success
\* exactly when the first result has no code or a code below 2000 (1000 and
\* 1999 succeed, 2000 and 2303 fail), and it has a null result code exactly
\* when the code is absent.  A waiting command is resolved accordingly: with
\* the result when it is a success, with a command error when it is not.
C24_SuccessFromCode ==
  [][ParsedStep =>
       LET parsed == ParseXml(Head(runs)).parsed
           code == FirstCode(parsed)
       IN  /\ Dispatched.success =
                (parsed.greeting \/ code = Undef \/ code \in Below2000)
           /\ (Dispatched.resultCode = NullCode) = (parsed.greeting \/ code = Undef)
           /\ \A e \in Events(trace') :
                e.ev = "settle" =>
                  /\ e.out.success = Dispatched.success
                  /\ (e.out.kind = "result") = Dispatched.success]_vars

\* the response 2000 for t1 arrived while the command waited: the caller
\* got a command error with that code
C24_Witness ==
  \E e \in Events(trace) :
    /\ e.ev = "settle"
    /\ e.out.kind = "error"
    /\ e.out.code = NumCode(2000)
    /\ ~e.out.success

(* -------------------------------- hello -------------------------------- *)

\* hello() with and without an id, next to one ordinary command; the
\* registry sends its greeting and a response
HelloEnv ==
  [maxSockets |-> CorrSockets, maxCalls |-> MaxCalls,
   xmls |-> {XmlWithId}, ids |-> {Undef, "t2"},
   timeouts |-> {NoTimeout},
   chunks |-> {DocFrame(1), DocFrame(2)}]

HelloIn(env) ==
  \E t \in env.ids, to \in env.timeouts, w \in BOOLEAN :
    Hello(t, to, w, env.maxCalls)

NextHello ==
  \/ ConnectIn(HelloEnv)
  \/ SecureConnectIn(HelloEnv)
  \/ SocketErrorIn(HelloEnv)
  \/ SocketCloseIn(HelloEnv)
  \/ Disconnect
  \/ DestroyIn(HelloEnv)
  \/ SendCommandIn(HelloEnv)
  \/ HelloIn(HelloEnv)
  \/ TimerFireIn(HelloEnv)
  \/ SocketDataIn(HelloEnv)
  \/ ParseDone

SpecHello == Init /\ [][NextHello]_vars

\* C25: hello() on a connected client whose write succeeds writes one frame to
\* the socket, the frame of the <epp> envelope around <hello/> with no
\* <command> and no <clTRID> in it, and registers a waiter that is resolved
\* like that of any other command.
C25_HelloTransmits ==
  [][\A t \in HelloEnv.ids, to \in HelloEnv.timeouts :
       (/\ _socket # 0 /\ _connected
        /\ Len(calls) < HelloEnv.maxCalls
        /\ Hello(t, to, FALSE, HelloEnv.maxCalls)) =>
         /\ Len(calls') = Len(calls) + 1
         /\ calls'[Len(calls')].tid \in DOMAIN _pending'
         /\ \E e \in Events(trace') :
              /\ e.ev = "write"
              /\ e.data = EncodeFrame(BuildHelloCommand)]_vars

(* --------------------------- Inbound messages -------------------------- *)

\* what the registry sends: the greeting, a success and a failure for t1, a
\* failure and a success without clTRID, and a text that is no XML
NotXml == 99
InboundPayloads == {<< 1 >>, << 2 >>, << 3 >>, << 5 >>, << 7 >>, << NotXml >>}

\* the offsets of a stream at which one frame ends and the next begins
BoundaryCuts(payloads) ==
  { Len(EncodeStream(SubSeq(payloads, 1, j))) : j \in 1..(Len(payloads) - 1) }

\* one to MaxFrames frames in a row, arriving in reads of whole frames
InitInbound ==
  \E payloads \in SeqsUpTo(InboundPayloads, MaxFrames) :
    /\ payloads # << >>
    /\ \E cuts \in SUBSET BoundaryCuts(payloads) :
         InitFeed(payloads, ReadsOf(EncodeStream(payloads), cuts))

\* one connection, one command sent under t1
InboundEnv ==
  [maxSockets |-> 1, maxCalls |-> MaxCalls, xmls |-> {XmlWithId},
   ids |-> {Undef}, timeouts |-> {NoTimeout}, chunks |-> {}]

NextInbound ==
  \/ ConnectIn(InboundEnv)
  \/ SecureConnectIn(InboundEnv)
  \/ SendCommandIn(InboundEnv)
  \/ Read
  \/ ParseDone

SpecInbound == InitInbound /\ [][NextInbound]_vars

\* the names of the events of a step, in order; a resolved caller is "settle"
Names(tr) == [n \in DOMAIN tr |-> tr[n].ev]

\* the events of a step without the 'received' of the frame extracted at its
\* end
Handling(tr) ==
  IF tr # << >> /\ tr[Len(tr)].ev = "received"
  THEN SubSeq(tr, 1, Len(tr) - 1) ELSE tr

\* C26: a frame is announced by 'received' in the step that extracts it, and
\* its xml waits for the parse from then on, so that 'received' precedes
\* everything else about the frame.  The step that completes the parse
\* emits 'message' first and then what is specific to the message:
\* 'greeting', or the resolution of the matching waiter, or 'response', which
\* 'error' follows when the unmatched response is a failure; nothing else,
\* and no 'received' in between.
C26_NotificationOrder ==
  /\ [](feed.on =>
          /\ Len(runs) <= Len(feed.xmls)
          /\ runs = SubSeq(feed.xmls, Len(feed.xmls) - Len(runs) + 1,
                           Len(feed.xmls)))
  /\ [][feed.on =>
          /\ (Len(feed.xmls') = Len(feed.xmls) + 1) =
               (trace' # << >> /\ trace'[Len(trace')].ev = "received")
          /\ ~Emitted(Handling(trace'), "received")]_vars
  /\ [][GreetingStep => Names(Handling(trace')) = << "message", "greeting" >>]_vars
  /\ [][MatchedStep => Names(Handling(trace')) = << "message", "settle" >>]_vars
  /\ [][UnmatchedStep =>
          Names(Handling(trace')) =
            IF Dispatched.success THEN << "message", "response" >>
            ELSE << "message", "response", "error" >>]_vars

\* the failure without clTRID and the greeting arrived in one read: the step
\* that completed the parse of the failure emitted 'message', 'response' and
\* 'error', and then 'received' for the greeting
C26_Witness ==
  /\ feed.on
  /\ feed.xmls = << << 5 >>, << 1 >> >>
  /\ runs = << << 1 >> >>
  /\ Names(trace) = << "message", "response", "error", "received" >>

(* --------------------------- updateNameservers ------------------------- *)

NsNames == {"ns1", "ns2", "ns3"}

\* the elements of a list
Range(list) == {list[n] : n \in DOMAIN list}

\* list.filter((ns) => !set.has(ns))
Without(list, set) == SelectSeq(list, LAMBDA ns : ns \notin set)

\* a toRemove that holds every current nameserver
ToRemoveAll(requested, current) == current

\* toAdd and toRemove of updateNameservers
ToAdd(requested, current) == Without(requested, Range(current))
ToRemove(requested, current) == Without(current, Range(requested))

\* buildNsList(list)
RECURSIVE BuildNsList(_)
BuildNsList(list) ==
  IF list = << >> THEN << >>
  ELSE << "<domain:hostObj>", EscapeXml(Head(list)), "</domain:hostObj>" >>
       \o BuildNsList(Tail(list))

\* buildInfoDomainCommand({name, transactionId})
BuildInfoDomainCommand(transactionId) ==
  << "<?xml?>", "\n", "<epp>", "\n  ", "<command>", "<info/>",
     "<clTRID>", EscapeXml(transactionId), "</clTRID>", "</command>", "</epp>" >>

\* buildUpdateDomainCommand({name, add, remove, transactionId}), add and
\* remove holding nameservers only
BuildUpdateDomainCommand(add, remove, transactionId) ==
  << "<?xml?>", "\n", "<epp>", "\n  ", "<command>", "<update>" >>
  \o (IF add = << >> THEN << >>
      ELSE << "<domain:add>" >> \o BuildNsList(add) \o << "</domain:add>" >>)
  \o (IF remove = << >> THEN << >>
      ELSE << "<domain:rem>" >> \o BuildNsList(remove) \o << "</domain:rem>" >>)
  \o << "</update>", "<clTRID>", EscapeXml(transactionId), "</clTRID>",
        "</command>", "</epp>" >>

\* what infoDomain returned to updateNameservers: an Error, or the domain
\* info with the current nameservers
InfoError(err) == [error |-> TRUE, err |-> err, nameservers |-> << >>]
InfoResult(nameservers) == [error |-> FALSE, err |-> "", nameservers |-> nameservers]
InfoResults ==
  { InfoError(ErrTimeout), InfoResult(<< >>), InfoResult(<< "ns1" >>),
    InfoResult(<< "ns1", "ns2" >>), InfoResult(<< "ns2", "ns3" >>) }

UpToDate == "Nameservers are already up to date."

\* the arguments infoDomain and updateDomain build their command from
InfoArgs == [cmd |-> "info", add |-> << >>, remove |-> << >>]
UpdateArgs(add, remove) == [cmd |-> "update", add |-> add, remove |-> remove]

\* the command document of a builder call
BuildCommand(args, transactionId) ==
  IF args.cmd = "info" THEN BuildInfoDomainCommand(transactionId)
  ELSE BuildUpdateDomainCommand(args.add, args.remove, transactionId)

\* infoDomain / updateDomain: the id is generated when none is given, the
\* command is built around it and handed to sendCommand
SendBuilt(args, transactionId, timeout, writeThrows, maxCalls) ==
  LET generate == transactionId = Undef
      clTRID == IF generate THEN NextTransactionId(_transactionIdCounter)
                ELSE transactionId
      counter == IF generate THEN _transactionIdCounter + 1
                 ELSE _transactionIdCounter
  IN  /\ counter <= maxCalls
      /\ SendCommandWith(counter, BuildCommand(args, clTRID), clTRID, timeout,
                         writeThrows, maxCalls)

\* updateNameservers up to its await: infoDomain({name, transactionId, timeout})
InfoDomain(transactionId, timeout, writeThrows, maxCalls) ==
  SendBuilt(InfoArgs, transactionId, timeout, writeThrows, maxCalls)

\* updateNameservers from the point where infoDomain has returned infoResult
UpdateNameserversResume(requested, transactionId, timeout, infoResult, w, maxCalls) ==
  LET toAdd == ToAdd(requested, infoResult.nameservers)
      toRemove == ToRemove(requested, infoResult.nameservers)
      Return(value) ==
        /\ ~spinning
        /\ trace' = << Ev("updateNameservers.return", value) >>
        /\ UNCHANGED <<_config, incoming, feed, _socket, _connected, _buffer,
                       _pending, _transactionIdCounter, sockets, calls, spinning,
                       runs, nConnect, nClose>>
  IN  /\ \E i \in DOMAIN calls : calls[i].settles > 0
      /\ IF infoResult.error THEN Return(infoResult.err)
         ELSE IF toAdd = << >> /\ toRemove = << >> THEN Return(UpToDate)
         ELSE SendBuilt(UpdateArgs(toAdd, toRemove), transactionId, timeout, w,
                        maxCalls)

\* updateNameservers with the id t2, the registry answering under t2
NsEnv ==
  [maxSockets |-> CorrSockets, maxCalls |-> CorrCalls, xmls |-> {},
   ids |-> {"t2"}, timeouts |-> {NoTimeout}, chunks |-> {DocFrame(4)}]

\* the nameserver lists a caller asks for: at least one name; the same
\* names in another order, and a name twice
Requests ==
  { << "ns1" >>, << "ns1", "ns2" >>, << "ns2", "ns1" >>, << "ns1", "ns3" >>,
    << "ns1", "ns1" >> }

InfoDomainIn(env) ==
  \E t \in env.ids, to \in env.timeouts, w \in BOOLEAN :
    InfoDomain(t, to, w, env.maxCalls)

UpdateNameserversResumeIn(env) ==
  \E r \in Requests, t \in env.ids, to \in env.timeouts, info \in InfoResults,
     w \in BOOLEAN :
    UpdateNameserversResume(r, t, to, info, w, env.maxCalls)

NextNs ==
  \/ ConnectIn(NsEnv)
  \/ SecureConnectIn(NsEnv)
  \/ SocketCloseIn(NsEnv)
  \/ InfoDomainIn(NsEnv)
  \/ UpdateNameserversResumeIn(NsEnv)
  \/ SocketDataIn(NsEnv)
  \/ ParseDone

SpecNs == Init /\ [][NextNs]_vars

\* the nameservers a written document names between the tags open and close
NamedIn(xml, open, close) ==
  IF open \notin Range(xml) THEN {}
  ELSE LET from == CHOOSE n \in DOMAIN xml : xml[n] = open
           to == CHOOSE n \in DOMAIN xml : xml[n] = close
       IN  {xml[n] : n \in from..to} \cap NsNames

\* C27: once infoDomain has returned, updateNameservers returns its error
\* and sends nothing when it failed; returns the up-to-date success and sends
\* nothing when the requested and the current nameservers are the same set;
\* and otherwise hands sendCommand one update that adds the requested names
\* that are not current and removes the current names that are not
\* requested, so that the current set without the removed names and with
\* the added ones is the requested set.
C27_NameserverDifference ==
  [][\A r \in Requests, t \in NsEnv.ids, to \in NsEnv.timeouts,
        info \in InfoResults :
       UpdateNameserversResume(r, t, to, info, FALSE, NsEnv.maxCalls) =>
         LET current == Range(info.nameservers)
             requested == Range(r)
             quiet == /\ calls' = calls
                      /\ _pending' = _pending
                      /\ ~Emitted(trace', "write")
         IN  IF info.error
             THEN quiet /\ trace' = << Ev("updateNameservers.return", info.err) >>
             ELSE IF requested = current
             THEN quiet /\ trace' = << Ev("updateNameservers.return", UpToDate) >>
             ELSE (_socket # 0 /\ _connected /\ Len(calls) < NsEnv.maxCalls) =>
                    /\ Len(calls') = Len(calls) + 1
                    /\ trace'[1].ev = "write"
                    /\ LET xml == SubSeq(trace'[1].data, 5, Len(trace'[1].data))
                           add == NamedIn(xml, "<domain:add>", "</domain:add>")
                           rem == NamedIn(xml, "<domain:rem>", "</domain:rem>")
                       IN  /\ add = requested \ current
                           /\ rem = current \ requested
                           /\ (current \ rem) \cup add = requested]_vars

\* the info command was resolved by the response under t2; for the current
\* nameservers ns1, ns2 and the requested ns1, ns3 the update adding ns3 and
\* removing ns2 has been written
C27_Witness ==
  /\ Len(calls) = 2
  /\ calls[1].via = "response"
  /\ calls[2].settles = 0
  /\ trace # << >>
  /\ trace[1] = Written("t2", EncodeFrame(
                  BuildUpdateDomainCommand(<< "ns3" >>, << "ns2" >>, "t2")))

(* ---------------------- Registration and transmission ------------------ *)

\* C28: a command that was registered and written and is not resolved yet
\* has its waiter in the pending table, under its transaction id; and the
\* step that writes a frame is the step that registers the waiter: it is a
\* sendCommand step, the table holds the new waiter when the step is over,
\* and nothing inbound is handled within it.
C28_RegisteredWhenWritten ==
  /\ [](\A i \in DOMAIN calls :
          calls[i].settles = 0 =>
            /\ calls[i].tid \in DOMAIN _pending
            /\ _pending[calls[i].tid] = i)
  /\ [][\A e \in Events(trace') :
          e.ev = "write" =>
            /\ Names(trace') = << "write", "sent" >>
            /\ Len(calls') = Len(calls) + 1
            /\ calls'[Len(calls')].tid = e.arg
            /\ e.arg \in DOMAIN _pending'
            /\ _pending'[e.arg] = Len(calls')]_vars

(* ------------------------- socket error (C29) ------------------------- *)
\* the calls a step has settled
SettledIn(tr) == {e.call : e \in {x \in Events(tr) : x.ev = "settle"}}

\* how many notifications of a name a step has emitted
CountOf(tr, name) == Cardinality({n \in DOMAIN tr : tr[n].ev = name})

ParseErrorStep ==
  /\ ParseDone
  /\ ~ParseXml(Head(runs)).ok

\* C30: the step that completes the parse of a frame that is no XML emits
\* 'error' with the parse error and nothing else about that frame: no
\* 'message', no caller resolved, the pending table, the calls, the socket
\* and the connected flag as they were.  The handler then goes on with its
\* loop: the xmls that were waiting behind the frame still wait, and a
\* complete frame in the buffer is extracted and announced in the same step.
\* In a stream that holds such a frame, the frames yielded are the frames of
\* the stream in order, and once every read is in and no parse is awaited
\* every frame of the stream has been yielded, those behind the unparsable
\* one included.
C30_ParseErrorOnly ==
  /\ [][ParseErrorStep =>
          LET x == ExtractNext(_buffer)
          IN  /\ Handling(trace') = << Ev("error", ErrParse) >>
              /\ ~Emitted(trace', "message")
              /\ ~Emitted(trace', "settle")
              /\ UNCHANGED <<_pending, calls, _connected, _socket, sockets>>
              /\ x.found = (trace'[Len(trace')].ev = "received")
              /\ runs' = IF x.found THEN Append(Tail(runs), x.xml) ELSE Tail(runs)
              /\ _buffer' = x.buf
              /\ ~spinning']_vars
  /\ []((feed.on /\ \E n \in DOMAIN feed.sent : feed.sent[n] = << NotXml >>) =>
          /\ feed.xmls = SubSeq(feed.sent, 1, Len(feed.xmls))
          /\ (AllRead /\ runs = << >>) => feed.xmls = feed.sent
          /\ (feed.xmls # << >>) => _connected)

\* a command is pending under t1; a text that is no XML and the success for
\* t1 arrived in one read: the parse of the text has failed with 'error',
\* the command is still pending, and the response behind it has been
\* extracted and waits for its parse
C30_Witness ==
  /\ feed.on
  /\ feed.sent = << << NotXml >>, << 2 >> >>
  /\ trace = << Ev("error", ErrParse), Ev("received", "") >>
  /\ runs = << << 2 >> >>
  /\ _buffer = << >>
  /\ _connected
  /\ DOMAIN _pending = {"t1"}
  /\ calls[_pending["t1"]].settles = 0

(* --------------------------- blank frames (C31) ------------------------ *)
\* payloads without text (empty, NUL and whitespace only) and the texts of
\* the greeting and of the success for t1
BlankPayloads == {<< >>, << SP >>, << NUL, SP >>}
BlankStreamPayloads == BlankPayloads \cup {<< 1 >>, << 2 >>}

\* one to MaxFrames frames in a row, cut into at most MaxReads reads
InitBlank ==
  \E payloads \in SeqsUpTo(BlankStreamPayloads, MaxFrames) :
    /\ payloads # << >>
    /\ \E cuts \in SUBSET (1..(Len(EncodeStream(payloads)) - 1)) :
         /\ Cardinality(cuts) < MaxReads
         /\ InitFeed(payloads, ReadsOf(EncodeStream(payloads), cuts))

SpecBlank == InitBlank /\ [][NextInbound]_vars

\* the xml of the payloads that keep some text, in stream order
RECURSIVE NonBlank(_)
NonBlank(payloads) ==
  IF payloads = << >> THEN << >>
  ELSE IF PayloadXml(Head(payloads)) = << >> THEN NonBlank(Tail(payloads))
  ELSE << PayloadXml(Head(payloads)) >> \o NonBlank(Tail(payloads))

\* a read that yields nothing although it completes some frame: the bytes
\* left in the buffer are fewer than the bytes the buffer and the read held
DropStep ==
  /\ Read
  /\ runs' = runs
  /\ Len(_buffer') < Len(_buffer) + Len(Head(incoming))

\* C31: a frame whose payload is empty, or NUL bytes and whitespace only, is
\* taken out of the receive buffer and yields nothing: a read that only
\* completes such frames emits nothing and changes neither the pending
\* table nor any call; the xml announced by 'received' are exactly the texts
\* of the other frames of the stream, in order, and all of them once every
\* read is in, and the buffer is then empty.
C31_BlankFramesDropped ==
  /\ [][DropStep =>
          /\ trace' = << >>
          /\ UNCHANGED <<_pending, calls, _connected, _socket, feed>>]_vars
  /\ [](feed.on =>
          LET texts == NonBlank(feed.sent)
          IN  /\ Len(feed.xmls) <= Len(texts)
              /\ feed.xmls = SubSeq(texts, 1, Len(feed.xmls))
              /\ (AllRead /\ runs = << >>) =>
                   /\ feed.xmls = texts
                   /\ _buffer = << >>)

\* a command is pending under t1; an empty frame, a frame of NUL and
\* whitespace and the success for t1 arrived: only the response has been
\* announced, and it has resolved the command
C31_Witness ==
  /\ feed.on
  /\ feed.sent = << << >>, << NUL, SP >>, << 2 >> >>
  /\ AllRead
  /\ feed.xmls = << << 2 >> >>
  /\ Names(trace) = << "message", "settle" >>
  /\ Len(calls) = 1
  /\ calls[1].settles = 1
  /\ _buffer = << >>

(* ---------------------------- result code (C32) ------------------------ *)
\* the code texts of the model that are the decimal notation of an integer,
\* with that integer
IntegerValue ==
  ("1000" :> 1000) @@ ("1300" :> 1300) @@ ("1999" :> 1999) @@ ("2000" :> 2000)
  @@ ("2303" :> 2303) @@ ("2306" :> 2306)

\* C32: the result code of a normalized response is the integer the code
\* attribute of its first result denotes, and null when the response has no
\* result, when the first result has no code attribute, or when the
\* attribute is not the notation of an integer; the results after the first
\* have no part in it.
C32_ResultCodeOfFirstResult ==
  [][(ParsedStep /\ ~ParseXml(Head(runs)).parsed.greeting) =>
       LET parsed == ParseXml(Head(runs)).parsed
           code == IF parsed.results = << >> THEN Undef
                   ELSE parsed.results[1].code
       IN  Dispatched.resultCode =
             IF code \in DOMAIN IntegerValue THEN NumCode(IntegerValue[code])
             ELSE NullCode]_vars

(* ------------------------ reconnect buffer (C33) ----------------------- *)
\* the frame of the greeting, whole and in two reads: three bytes of its
\* header, then the rest
HeaderPart == SubSeq(DocFrame(1), 1, 3)
FrameRest == SubSeq(DocFrame(1), 4, Len(DocFrame(1)))

\* connections that end with or without a partial frame in the buffer, and
\* connects that follow them
ReconnectEnv ==
  [maxSockets |-> MaxSockets, maxCalls |-> 0, xmls |-> {}, ids |-> {},
   timeouts |-> {}, chunks |-> {HeaderPart, FrameRest, DocFrame(1)}]

NextReconnect ==
  \/ ConnectIn(ReconnectEnv)
  \/ SecureConnectIn(ReconnectEnv)
  \/ SocketErrorIn(ReconnectEnv)
  \/ SocketCloseIn(ReconnectEnv)
  \/ Disconnect
  \/ DestroyIn(ReconnectEnv)
  \/ SocketDataIn(ReconnectEnv)
  \/ ParseDone

SpecReconnect == Init /\ [][NextReconnect]_vars

\* C33: the step in which a handshake succeeds leaves the receive buffer
\* empty, and from then on only bytes received on the socket of that
\* connection enter the buffer, so that the buffer never holds bytes of two
\* connections and the first frame of a connection is decoded from its own
\* header.
C33_FreshBufferPerConnection ==
  /\ [][\A s \in DOMAIN sockets : SecureConnect(s) => _buffer' = << >>]_vars
  /\ [][\A s \in DOMAIN sockets, chunk \in ReconnectEnv.chunks :
          SocketData(s, chunk) => s = _socket]_vars

(* ------------------------ loop termination (C34) ----------------------- *)
\* the length of the frame header
HeaderLen == 4

\* headers that declare a total length of 0 up to the length of the header
\* itself, a byte of text, and the frame of the greeting
ShortHeaders == { UInt32BE(n) : n \in 0..HeaderLen } \cup {<< 1 >>, DocFrame(1)}

HeaderEnv ==
  [maxSockets |-> 1, maxCalls |-> 0, xmls |-> {}, ids |-> {}, timeouts |-> {},
   chunks |-> ShortHeaders]

NextHeader ==
  \/ ConnectIn(HeaderEnv)
  \/ SecureConnectIn(HeaderEnv)
  \/ SocketDataIn(HeaderEnv)
  \/ ParseDone

SpecHeader == Init /\ [][NextHeader]_vars

\* C34: the extraction loop of the receive handler comes to an end for
\* every content of the receive buffer, a header that declares a length of
\* 0, 1, 2 or 3 included: no 'data' leaves the handler in a loop that never
\* returns.
C34_ExtractionTerminates == ~spinning

(* ------------------------- concurrent runs (C35) ----------------------- *)
\* runs of the receive handler that may be suspended at the same time
MaxConcurrentRuns == 2

\* 'data' with the next read of the stream, also while a run of the handler
\* awaits a parse
ReadConcurrent ==
  \E s \in DOMAIN sockets : SocketDataWith(s, Head(incoming), MaxConcurrentRuns)

NextConcurrent ==
  \/ ConnectIn(InboundEnv)
  \/ SecureConnectIn(InboundEnv)
  \/ SendCommandIn(InboundEnv)
  \/ ReadConcurrent
  \/ ParseDone

SpecConcurrent == InitInbound /\ [][NextConcurrent]_vars

\* the number of frames whose parse has completed
DispatchedCount == Len(feed.xmls) - Len(runs)

\* C35: the frames are dispatched in the order of the stream, each once,
\* also when a read starts a second run of the handler while another run
\* awaits a parse: the xmls that wait for their parse are the last ones
\* announced, in order; what has been dispatched and what waits is a prefix
\* of the frames of the stream; each completed parse dispatches the oldest
\* waiting xml and no other step emits 'message' or resolves a caller with
\* a response; its 'message' carries the clTRID of that frame when the frame
\* is XML and 'error' is emitted when it is not; and once every read is in
\* and nothing waits, every frame of the stream has been dispatched.
C35_DispatchInStreamOrder ==
  /\ [](feed.on =>
          /\ DispatchedCount >= 0
          /\ runs = SubSeq(feed.xmls, DispatchedCount + 1, Len(feed.xmls))
          /\ feed.xmls = SubSeq(NonBlank(feed.sent), 1, Len(feed.xmls))
          /\ (AllRead /\ runs = << >>) => DispatchedCount = Len(NonBlank(feed.sent)))
  /\ [][feed.on =>
          IF ParseDone
          THEN LET xml == NonBlank(feed.sent)[DispatchedCount + 1]
               IN  /\ DispatchedCount' = DispatchedCount + 1
                   /\ xml = Head(runs)
                   /\ trace'[1] =
                        IF ParseXml(xml).ok
                        THEN Ev("message",
                                NormalizeEppResponse(ParseXml(xml).parsed).transactionId)
                        ELSE Ev("error", ErrParse)
                   /\ CountOf(trace', "message") + CountOf(Handling(trace'), "error")
                        <= 2
                   /\ CountOf(trace', "message") <= 1
          ELSE /\ DispatchedCount' = DispatchedCount
               /\ ~Emitted(trace', "message")
               /\ \A i \in DOMAIN calls' :
                    calls'[i].via = "response" =>
                      (i \in DOMAIN calls /\ calls[i].via = "response")]_vars

\* the first read held the greeting and the success for t1, the second the
\* failure for t1: a second run of the handler took the success out of the
\* buffer while the first awaited the parse of the greeting; the first run
\* has dispatched the greeting and gone on to the failure, and the success
\* waits in front of it
C35_Witness ==
  /\ feed.on
  /\ feed.sent = << << 1 >>, << 2 >>, << 3 >> >>
  /\ Len(feed.cut) = 2
  /\ feed.xmls = feed.sent
  /\ runs = << << 2 >>, << 3 >> >>
  /\ Names(trace) = << "message", "greeting", "received" >>

(* --------------------------- id reuse (C36) ---------------------------- *)
\* call i has its waiter in the pending table
Waiting(i) == \E k \in DOMAIN _pending : _pending[k] = i

\* C36: a sendCommand call that has registered and is not resolved yet has
\* its waiter in the pending table, whatever other calls have done since
\* (so that close handling, which resolves the table, resolves it at the
\* latest); once the instance holds no socket every call is resolved; a
\* sendCommand leaves the waiters of the other calls in the table; and a
\* timer that fires removes the entry of its own call and no other.
C36_NoWaiterOrphaned ==
  /\ [](\A i \in DOMAIN calls : calls[i].settles = 0 => Waiting(i))
  /\ [](_socket = 0 => \A i \in DOMAIN calls : calls[i].settles > 0)
  /\ [][\A i \in DOMAIN calls :
          (Waiting(i) /\ Len(calls') = Len(calls) + 1) => Waiting(i)']_vars
  /\ [][\A i \in DOMAIN calls :
          TimerFire(i) =>
            \A k \in DOMAIN _pending :
              _pending[k] # i => (k \in DOMAIN _pending' /\ _pending'[k] = _pending[k])]_vars

(* -------------------------- late responses (C37) ----------------------- *)
\* the registry answers the commands under t1 in the order it got them: a
\* stream of one or two responses for t1 (success, failure), one frame a read
LatePayloads == {<< 2 >>, << 3 >>}

InitLate ==
  \E payloads \in SeqsUpTo(LatePayloads, CorrCalls) :
    /\ payloads # << >>
    /\ InitFeed(payloads,
                ReadsOf(EncodeStream(payloads), BoundaryCuts(payloads)))

\* commands under t1, with the default timer and without timer
LateEnv ==
  [maxSockets |-> 1, maxCalls |-> CorrCalls, xmls |-> {XmlWithId},
   ids |-> {Undef}, timeouts |-> {NoTimeout, TimeoutOf(0)}, chunks |-> {}]

NextLate ==
  \/ ConnectIn(LateEnv)
  \/ SecureConnectIn(LateEnv)
  \/ SendCommandIn(LateEnv)
  \/ TimerFireIn(LateEnv)
  \/ Read
  \/ ParseDone

SpecLate == InitLate /\ [][NextLate]_vars

\* C37: the n-th response of the registry answers the n-th command written.
\* When that command has already been resolved by its timer, the response
\* is delivered to no other call: the step that dispatches it resolves
\* nobody, also when a later command is pending under the same id.
C37_LateResponseToNoOtherCall ==
  [][(feed.on /\ ParseDone /\ DispatchedCount + 1 \in DOMAIN calls) =>
       LET n == DispatchedCount + 1
       IN  calls[n].via = "timer" =>
             \A e \in Events(trace') : e.ev = "settle" => e.call = n]_vars

C39_NoDispatchAfterClose ==
  [][(\/ Emitted(trace', "message")
      \/ Emitted(trace', "greeting")
      \/ Emitted(trace', "response")
      \/ \E i \in DOMAIN calls :
           calls[i].via # "response" /\ calls'[i].via = "response")
       => _connected]_vars

(* ------------------------- state invariant (C40) ----------------------- *)
\* C40: the instance holds a socket exactly when it is connected; while it
\* is not connected the pending table is empty and no sendCommand call has
\* its timer armed.
C40_SocketIffConnected ==
  /\ (_socket # 0) = _connected
  /\ ~_connected =>
       /\ _pending = EmptyMap
       /\ \A i \in DOMAIN calls : calls[i].timer = 0

====
